---- MODULE Spec2Model ----
(***************************************************************************)
(* Game-show state machine of Spotlight: the GameState aggregate (teams,   *)
(* buzz arbiter, timer, status), its persistence codec, the per-task      *)
(* guards and the application's command loop.                             *)
(*                                                                         *)
(* Conventions                                                             *)
(*   Optional[T]   None == <<>>, Some(x) == <<x>>                          *)
(*   str           a sequence of tokens read as their concatenation: the   *)
(*                 characters of a name, so that strip() is computed; a    *)
(*                 fixed literal is one token                              *)
(*   JSON value    a record [t |-> tag, v |-> payload]                     *)
(***************************************************************************)
EXTENDS Integers, Sequences, FiniteSets, TLC

VARIABLES
    gs,              \* the GameState aggregate
    last,            \* the last GameState call: name, arguments, result
    selected_team,   \* Application.selected_team
    awarded,         \* ScoringState._awarded
    revealed,        \* RevealState._revealed
    current_index,   \* Session.current_index
    last_task_index, \* Application._last_task_index
    buzz_open_mode,  \* InputController._buzz_open_mode
    commands,        \* the batch returned by poll_commands, not yet applied
    phase,           \* position in Application._game_loop
    now,             \* pygame.time.get_ticks() read at the top of the loop
    file,            \* content of data/game_state.json
    applied,         \* the command _apply_command ran last
    show_roster,     \* Application.show_roster
    show_help,       \* Application.show_help
    keys             \* KEYDOWN events delivered so far

vars == <<gs, last, selected_team, awarded, revealed, current_index,
          last_task_index, buzz_open_mode, commands, phase, now, file,
          applied, show_roster, show_help, keys>>

appVars == <<selected_team, awarded, revealed, current_index,
             last_task_index, buzz_open_mode, commands, phase, now, file,
             applied, show_roster, show_help, keys>>

-----------------------------------------------------------------------------
(* Optional values *)

None == <<>>
Some(x) == <<x>>
IsNone(o) == Len(o) = 0
IsSome(o) == Len(o) = 1
Val(o) == o[1]

(* str.strip() *)
RECURSIVE lstrip(_)
lstrip(s) == IF Len(s) > 0 /\ Head(s) = " " THEN lstrip(Tail(s)) ELSE s

RECURSIVE rstrip(_)
rstrip(s) ==
    IF Len(s) > 0 /\ s[Len(s)] = " " THEN rstrip(SubSeq(s, 1, Len(s) - 1)) ELSE s

strip(s) == rstrip(lstrip(s))

Max(a, b) == IF a >= b THEN a ELSE b
Min(a, b) == IF a <= b THEN a ELSE b

-----------------------------------------------------------------------------
(* Bounds of the model *)

MaxScore == 1        \* |score| explored, and |points| passed to add_points
MaxClock == 2        \* timestamps explored: 0, ClockStep, .., MaxClock * ClockStep;
                     \* timer.elapsed_ms is explored up to the last of them

ClockStep == 1000    \* granularity of the timestamps explored

Times == {k * ClockStep : k \in 0..MaxClock}

-----------------------------------------------------------------------------
(* Enumerations: BuzzState and TimerMode are str-valued enums *)

CLOSED == <<"closed">>
OPEN == <<"open">>
LOCKED == <<"locked">>
BuzzStateValues == {CLOSED, OPEN, LOCKED}

STOPWATCH == <<"stopwatch">>
COUNTDOWN == <<"countdown">>
TimerModeValues == {STOPWATCH, COUNTDOWN}

StatusDurationMs == 2000

-----------------------------------------------------------------------------
(* Team and Timer *)

Team(n, s) == [name |-> n, score |-> s]

NewTimer ==
    [mode |-> STOPWATCH, running |-> FALSE, elapsed_ms |-> 0,
     target_ms |-> None, last_start_ms |-> None]

(* _accumulate without the clamp of the delta at 0 *)
Timer_accumulate_unclamped(t, now_ms) ==
    IF IsNone(t.last_start_ms)
    THEN [t EXCEPT !.last_start_ms = Some(now_ms)]
    ELSE [t EXCEPT !.elapsed_ms = @ + (now_ms - Val(t.last_start_ms))]

Timer_accumulate(t, now_ms) ==
    IF IsNone(t.last_start_ms)
    THEN [t EXCEPT !.last_start_ms = Some(now_ms)]
    ELSE [t EXCEPT !.elapsed_ms = @ + Max(0, now_ms - Val(t.last_start_ms))]

Timer_start(t, now_ms) ==
    IF t.running THEN t
    ELSE [t EXCEPT !.running = TRUE, !.last_start_ms = Some(now_ms)]

Timer_pause(t, now_ms) ==
    IF ~t.running THEN t
    ELSE [Timer_accumulate(t, now_ms) EXCEPT
              !.running = FALSE, !.last_start_ms = None]

(* reset that leaves the accumulation origin in place *)
Timer_reset_keeps_origin(t) ==
    [t EXCEPT !.running = FALSE, !.elapsed_ms = 0]

Timer_reset(t) ==
    [t EXCEPT !.running = FALSE, !.elapsed_ms = 0, !.last_start_ms = None]

set_countdown_raises(target_ms) == target_ms < 0

(* set_countdown that takes a negative target as 0 *)
Timer_set_countdown_clamped(t, target_ms) ==
    Timer_reset([t EXCEPT !.mode = COUNTDOWN, !.target_ms = Some(Max(0, target_ms))])

Timer_set_countdown(t, target_ms) ==
    IF set_countdown_raises(target_ms) THEN t
    ELSE Timer_reset([t EXCEPT !.mode = COUNTDOWN, !.target_ms = Some(target_ms)])

Timer_set_stopwatch(t) ==
    Timer_reset([t EXCEPT !.mode = STOPWATCH, !.target_ms = None])

(* tick that folds the delta in but keeps the old origin *)
Timer_tick_unanchored(t, now_ms) ==
    IF ~t.running THEN t
    ELSE Timer_accumulate(t, now_ms)

Timer_tick(t, now_ms) ==
    IF ~t.running THEN t
    ELSE [Timer_accumulate(t, now_ms) EXCEPT !.last_start_ms = Some(now_ms)]

remaining_ms(t) ==
    IF t.mode # COUNTDOWN THEN None
    ELSE IF IsNone(t.target_ms) THEN None
    ELSE Some(Max(0, Val(t.target_ms) - t.elapsed_ms))

is_finished(t) == IsSome(remaining_ms(t)) /\ Val(remaining_ms(t)) = 0

-----------------------------------------------------------------------------
(* GameState *)

NewGameState(teams) ==
    [teams |-> teams,
     buzz_state |-> CLOSED,
     buzz_locked_team |-> None,
     timer |-> NewTimer,
     buzz_blocked_teams |-> {},
     status_message |-> None,
     status_until_ms |-> None]

(* the names that survive the filter, kept as they were written *)
RECURSIVE clean_names_unstripped(_)
clean_names_unstripped(team_names) ==
    IF team_names = <<>> THEN <<>>
    ELSE LET n == Head(team_names) IN
         IF Len(n) > 0 /\ Len(strip(n)) > 0
         THEN <<n>> \o clean_names_unstripped(Tail(team_names))
         ELSE clean_names_unstripped(Tail(team_names))

(* the names that survive "if name and name.strip()", stripped, in order *)
RECURSIVE clean_names(_)
clean_names(team_names) ==
    IF team_names = <<>> THEN <<>>
    ELSE LET n == Head(team_names) IN
         IF Len(n) > 0 /\ Len(strip(n)) > 0
         THEN <<strip(n)>> \o clean_names(Tail(team_names))
         ELSE clean_names(Tail(team_names))

with_teams_raises(team_names) == clean_names(team_names) = <<>>

with_teams(team_names) ==
    LET clean == clean_names(team_names) IN
    NewGameState([i \in 1..Len(clean) |-> Team(clean[i], 0)])

NumTeams(g) == Len(g.teams)

(* Python indexes teams from 0 *)
ValidIndex(g, team_index) == 0 <= team_index /\ team_index < NumTeams(g)
TeamAt(g, team_index) == g.teams[team_index + 1]
Scores(g) == [i \in 1..NumTeams(g) |-> g.teams[i].score]

set_status(g, message, now_ms, duration_ms) ==
    [g EXCEPT !.status_message = Some(message),
              !.status_until_ms = Some(now_ms + Max(0, duration_ms))]

(* set_status under "if now_ms is not None", with the default duration *)
status_if(g, message, now_opt) ==
    IF IsSome(now_opt) THEN set_status(g, message, Val(now_opt), StatusDurationMs)
    ELSE g

(* clear_expired_status that waits until the expiry has passed *)
clear_expired_status_late(g, now_ms) ==
    IF IsSome(g.status_until_ms) /\ now_ms > Val(g.status_until_ms)
    THEN [g EXCEPT !.status_until_ms = None, !.status_message = None]
    ELSE g

clear_expired_status(g, now_ms) ==
    IF IsSome(g.status_until_ms) /\ now_ms >= Val(g.status_until_ms)
    THEN [g EXCEPT !.status_until_ms = None, !.status_message = None]
    ELSE g

(* f"{points}" with the sign add_points puts before it *)
signed(points) == <<IF points >= 0 THEN "+" ELSE "", ToString(points)>>

(* add_points with the check of buzz_blocked_teams left out *)
add_points_unblocked(g, team_index, points, now_opt) ==
    IF ~ValidIndex(g, team_index) THEN g
    ELSE status_if([g EXCEPT !.teams[team_index + 1].score = @ + points],
                   TeamAt(g, team_index).name \o <<" ">> \o signed(points),
                   now_opt)

(* add_points that lets a negative index count from the end of the list,  *)
(* as teams[team_index] alone would                                        *)
add_points_from_end(g, team_index, points, now_opt) ==
    LET i == IF team_index < 0 THEN team_index + NumTeams(g) ELSE team_index IN
    IF ~ValidIndex(g, i) THEN g
    ELSE IF i \in g.buzz_blocked_teams
    THEN status_if(g, <<"BLOCKED: ">> \o TeamAt(g, i).name, now_opt)
    ELSE status_if([g EXCEPT !.teams[i + 1].score = @ + points],
                   TeamAt(g, i).name \o <<" ">> \o signed(points),
                   now_opt)

add_points(g, team_index, points, now_opt) ==
    IF ~ValidIndex(g, team_index) THEN g
    ELSE IF team_index \in g.buzz_blocked_teams
    THEN status_if(g, <<"BLOCKED: ">> \o TeamAt(g, team_index).name, now_opt)
    ELSE status_if([g EXCEPT !.teams[team_index + 1].score = @ + points],
                   TeamAt(g, team_index).name \o <<" ">> \o signed(points),
                   now_opt)

(* reset_scores that leaves the blocked teams and the timer alone *)
reset_scores_only(g, now_opt) ==
    status_if([g EXCEPT !.teams = [i \in 1..NumTeams(g) |-> Team(g.teams[i].name, 0)],
                        !.buzz_state = CLOSED,
                        !.buzz_locked_team = None],
              <<"Scores reset">>, now_opt)

reset_scores(g, now_opt) ==
    status_if([g EXCEPT !.teams = [i \in 1..NumTeams(g) |-> Team(g.teams[i].name, 0)],
                        !.buzz_state = CLOSED,
                        !.buzz_locked_team = None,
                        !.buzz_blocked_teams = {},
                        !.timer = Timer_reset(g.timer)],
              <<"Scores reset">>, now_opt)

open_buzz(g, now_opt) ==
    status_if([g EXCEPT !.buzz_state = OPEN, !.buzz_locked_team = None],
              <<"BUZZ OPEN">>, now_opt)

reset_buzz(g, now_opt) ==
    status_if([g EXCEPT !.buzz_state = CLOSED,
                        !.buzz_locked_team = None,
                        !.buzz_blocked_teams = {}],
              <<"BUZZ RESET">>, now_opt)

(* fail_locked_team_and_reopen that forgets to block the locked team *)
fail_and_reopen_unblocked(g, now_opt) ==
    status_if([g EXCEPT !.buzz_state = OPEN, !.buzz_locked_team = None],
              <<"BUZZ REOPEN">>, now_opt)

fail_locked_team_and_reopen(g, now_opt) ==
    LET blocked == IF IsSome(g.buzz_locked_team)
                   THEN g.buzz_blocked_teams \cup {Val(g.buzz_locked_team)}
                   ELSE g.buzz_blocked_teams
    IN status_if([g EXCEPT !.buzz_blocked_teams = blocked,
                           !.buzz_state = OPEN,
                           !.buzz_locked_team = None],
                 <<"BUZZ REOPEN">>, now_opt)

clear_buzz_blocks(g) == [g EXCEPT !.buzz_blocked_teams = {}]

(* the value buzz() returns *)
buzz_returns(g, team_index) ==
    /\ g.buzz_state = OPEN
    /\ ValidIndex(g, team_index)
    /\ team_index \notin g.buzz_blocked_teams

(* buzz with the check of buzz_state left out *)
buzz_any_state(g, team_index, now_opt) ==
    IF ~ValidIndex(g, team_index) THEN g
    ELSE IF team_index \in g.buzz_blocked_teams
    THEN status_if(g, <<"BLOCKED: ">> \o TeamAt(g, team_index).name, now_opt)
    ELSE status_if([g EXCEPT !.buzz_state = LOCKED,
                             !.buzz_locked_team = Some(team_index)],
                   <<"BUZZ: ">> \o TeamAt(g, team_index).name, now_opt)

buzz(g, team_index, now_opt) ==
    IF g.buzz_state # OPEN THEN g
    ELSE IF ~ValidIndex(g, team_index) THEN g
    ELSE IF team_index \in g.buzz_blocked_teams
    THEN status_if(g, <<"BLOCKED: ">> \o TeamAt(g, team_index).name, now_opt)
    ELSE status_if([g EXCEPT !.buzz_state = LOCKED,
                             !.buzz_locked_team = Some(team_index)],
                   <<"BUZZ: ">> \o TeamAt(g, team_index).name, now_opt)

timer_start_pause_toggle(g, now_ms) ==
    IF g.timer.running
    THEN set_status([g EXCEPT !.timer = Timer_pause(g.timer, now_ms)],
                    <<"Timer paused">>, now_ms, StatusDurationMs)
    ELSE set_status([g EXCEPT !.timer = Timer_start(g.timer, now_ms)],
                    <<"Timer started">>, now_ms, StatusDurationMs)

timer_reset(g, now_ms) ==
    set_status([g EXCEPT !.timer = Timer_reset(g.timer)],
               <<"Timer reset">>, now_ms, StatusDurationMs)

tick(g, now_ms) ==
    clear_expired_status([g EXCEPT !.timer = Timer_tick(g.timer, now_ms)], now_ms)

-----------------------------------------------------------------------------
(* JSON values, as json.dumps writes and json.loads reads them *)

JNull == [t |-> "null", v |-> 0]
JInt(i) == [t |-> "int", v |-> i]
JBool(b) == [t |-> "bool", v |-> b]
JStr(s) == [t |-> "str", v |-> s]
JList(l) == [t |-> "list", v |-> l]
JObj(d) == [t |-> "dict", v |-> d]
JOpt(o) == IF IsNone(o) THEN JNull ELSE JInt(Val(o))

is_dict(j) == j.t = "dict"
is_list(j) == j.t = "list"
is_str(j) == j.t = "str"
is_bool(j) == j.t = "bool"
is_null(j) == j.t = "null"
(* isinstance(x, int): bool is a subclass of int *)
is_int(j) == j.t = "int" \/ j.t = "bool"
int_of(j) == IF j.t = "bool" THEN (IF j.v THEN 1 ELSE 0) ELSE j.v

(* dict.get(key, default) *)
get(j, key, default) == IF key \in DOMAIN j.v THEN j.v[key] ELSE default

-----------------------------------------------------------------------------
(* Persistence: GameState.to_dict / GameState.from_dict *)

to_dict(g) ==
    JObj([version |-> JInt(1),
          teams |-> JList([i \in 1..NumTeams(g) |->
                              JObj([name |-> JStr(g.teams[i].name),
                                    score |-> JInt(g.teams[i].score)])]),
          buzz |-> JObj([state |-> JStr(g.buzz_state),
                         locked_team |-> JOpt(g.buzz_locked_team)]),
          timer |-> JObj([mode |-> JStr(g.timer.mode),
                          running |-> JBool(g.timer.running),
                          elapsed_ms |-> JInt(g.timer.elapsed_ms),
                          target_ms |-> JOpt(g.timer.target_ms)])])

EmptyDict == JObj(<<>>)

team_item_raises(item) ==
    \/ ~is_dict(item)
    \/ LET name == get(item, "name", JNull)
           score == get(item, "score", JInt(0))
       IN \/ ~is_str(name)
          \/ Len(strip(name.v)) = 0
          \/ ~is_int(score)

from_dict_raises(data) ==
    \/ ~is_dict(data)
    \/ LET teams_raw == get(data, "teams", JNull) IN
       \/ ~is_list(teams_raw)
       \/ Len(teams_raw.v) = 0
       \/ \E i \in 1..Len(teams_raw.v) : team_item_raises(teams_raw.v[i])

from_dict_teams(data) ==
    LET teams_raw == get(data, "teams", JNull).v IN
    [i \in 1..Len(teams_raw) |->
        Team(strip(get(teams_raw[i], "name", JNull).v),
             int_of(get(teams_raw[i], "score", JInt(0))))]

from_dict_buzz(g, data) ==
    LET buzz_raw == get(data, "buzz", EmptyDict) IN
    IF ~is_dict(buzz_raw) THEN g
    ELSE LET state == get(buzz_raw, "state", JStr(CLOSED))
             locked_team == get(buzz_raw, "locked_team", JNull)
             g1 == IF is_str(state) /\ state.v \in BuzzStateValues
                   THEN [g EXCEPT !.buzz_state = state.v] ELSE g
         IN IF is_null(locked_team) THEN [g1 EXCEPT !.buzz_locked_team = None]
            ELSE IF is_int(locked_team)
            THEN [g1 EXCEPT !.buzz_locked_team = Some(int_of(locked_team))]
            ELSE g1

(* from_dict's timer branch taking running as persisted *)
from_dict_timer_resumed(g, data) ==
    LET timer_raw == get(data, "timer", EmptyDict) IN
    IF ~is_dict(timer_raw) THEN g
    ELSE LET running == get(timer_raw, "running", JBool(FALSE))
             elapsed_ms == get(timer_raw, "elapsed_ms", JInt(0))
             t0 == g.timer
             t1 == IF is_bool(running) THEN [t0 EXCEPT !.running = running.v] ELSE t0
             t2 == IF is_int(elapsed_ms) /\ int_of(elapsed_ms) >= 0
                   THEN [t1 EXCEPT !.elapsed_ms = int_of(elapsed_ms)] ELSE t1
         IN [g EXCEPT !.timer = t2]

from_dict_timer(g, data) ==
    LET timer_raw == get(data, "timer", EmptyDict) IN
    IF ~is_dict(timer_raw) THEN g
    ELSE LET mode == get(timer_raw, "mode", JStr(STOPWATCH))
             running == get(timer_raw, "running", JBool(FALSE))
             elapsed_ms == get(timer_raw, "elapsed_ms", JInt(0))
             target_ms == get(timer_raw, "target_ms", JNull)
             t0 == g.timer
             t1 == IF is_str(mode) /\ mode.v \in TimerModeValues
                   THEN [t0 EXCEPT !.mode = mode.v] ELSE t0
             t2 == IF is_bool(running) THEN [t1 EXCEPT !.running = FALSE] ELSE t1
             t3 == IF is_int(elapsed_ms) /\ int_of(elapsed_ms) >= 0
                   THEN [t2 EXCEPT !.elapsed_ms = int_of(elapsed_ms)] ELSE t2
             t4 == IF is_null(target_ms) THEN [t3 EXCEPT !.target_ms = None]
                   ELSE IF is_int(target_ms) /\ int_of(target_ms) >= 0
                   THEN [t3 EXCEPT !.target_ms = Some(int_of(target_ms))]
                   ELSE t3
         IN [g EXCEPT !.timer = t4]

(* from_dict without the sanitizing step *)
sanitize_nothing(g) == g

(* the sanitizing step clearing the index but keeping the state *)
sanitize_index_only(g) ==
    IF IsSome(g.buzz_locked_team) /\ ~ValidIndex(g, Val(g.buzz_locked_team))
    THEN [g EXCEPT !.buzz_locked_team = None]
    ELSE g

(* "Sanitize locked team index" *)
sanitize_locked_team(g) ==
    IF IsSome(g.buzz_locked_team) /\ ~ValidIndex(g, Val(g.buzz_locked_team))
    THEN [g EXCEPT !.buzz_locked_team = None,
                   !.buzz_state = IF g.buzz_state = LOCKED THEN CLOSED ELSE @]
    ELSE g

(* defined where from_dict_raises(data) is false *)
from_dict(data) ==
    sanitize_locked_team(
        from_dict_timer(
            from_dict_buzz(NewGameState(from_dict_teams(data)), data), data))

-----------------------------------------------------------------------------
(* Documents offered to from_dict besides the ones to_dict writes: files    *)
(* left by an earlier session with another roster, edited or damaged.      *)

NameA == <<"A">>
NameB == <<"B">>

TeamDoc(name, score) == JObj([name |-> JStr(name), score |-> JInt(score)])
BuzzDoc(state, locked_team) == JObj([state |-> JStr(state), locked_team |-> locked_team])
TimerDoc(mode, running, elapsed_ms, target_ms) ==
    JObj([mode |-> JStr(mode), running |-> JBool(running),
          elapsed_ms |-> JInt(elapsed_ms), target_ms |-> target_ms])
Doc(version, team_docs, buzz_doc, timer_doc) ==
    JObj([version |-> JInt(version), teams |-> JList(team_docs),
          buzz |-> buzz_doc, timer |-> timer_doc])

OneTeam == <<TeamDoc(NameA, 0)>>
TwoTeams == <<TeamDoc(<<" ">> \o NameA, 1), TeamDoc(NameB, -1)>>
PausedTimerDoc == TimerDoc(STOPWATCH, FALSE, 0, JNull)
ClosedBuzzDoc == BuzzDoc(CLOSED, JNull)

BuzzDocs ==
    {Doc(1, team_docs, BuzzDoc(state, locked_team), PausedTimerDoc) :
        team_docs \in {OneTeam, TwoTeams},
        state \in BuzzStateValues,
        locked_team \in {JNull, JInt(0), JInt(1), JInt(9), JInt(-1)}}

TimerDocs ==
    {Doc(1, OneTeam, ClosedBuzzDoc, timer_doc) :
        timer_doc \in {TimerDoc(STOPWATCH, TRUE, ClockStep, JNull),
                   TimerDoc(COUNTDOWN, TRUE, ClockStep, JInt(ClockStep)),
                   TimerDoc(COUNTDOWN, FALSE, 0, JInt(-ClockStep)),
                   TimerDoc(STOPWATCH, FALSE, -ClockStep, JInt(ClockStep)),
                   TimerDoc(<<"lap">>, FALSE, 0, JNull)}}

VersionDocs ==
    {Doc(2, OneTeam, ClosedBuzzDoc, PausedTimerDoc),
     JObj([teams |-> JList(OneTeam), buzz |-> BuzzDoc(<<"paused">>, JStr(NameA))]),
     JObj([teams |-> JList(TwoTeams)])}

MalformedDocs ==
    {JList(OneTeam),
     JObj([version |-> JInt(1)]),
     JObj([version |-> JInt(1), teams |-> JList(<<>>)]),
     JObj([version |-> JInt(1), teams |-> JObj([name |-> JStr(NameA)])]),
     JObj([version |-> JInt(1), teams |-> JList(<<JStr(NameA)>>)]),
     JObj([version |-> JInt(1), teams |-> JList(<<TeamDoc(<<" ">>, 0)>>)]),
     JObj([version |-> JInt(1), teams |-> JList(<<JObj([name |-> JInt(7)])>>)]),
     JObj([version |-> JInt(1),
           teams |-> JList(<<JObj([name |-> JStr(NameA), score |-> JStr(<<"1">>)])>>)])}

ArbiterDocs == BuzzDocs \cup VersionDocs \cup MalformedDocs

-----------------------------------------------------------------------------
(* Spec: a caller of the GameState API, as the unit tests are. Every public *)
(* method is an action; its arguments are drawn from small sets that hold   *)
(* invalid values too.                                                      *)

StartNames == {<<NameA>>, <<NameA, <<" ">> \o NameB \o <<" ">>>>}

TeamArgs == -1..2
PointArgs == (-MaxScore)..MaxScore
TargetArgs == {-ClockStep, 0, ClockStep}

(* a call: its name, its team_index or None, the document it read or JNull, *)
(* and what it returned or raised                                          *)
Call(op, team, doc, ret) == [op |-> op, team |-> team, doc |-> doc, ret |-> ret]
NoCall == Call("init", None, JNull, "none")
Bool(b) == IF b THEN "true" ELSE "false"

ScoresWithin(g) == \A i \in 1..NumTeams(g) : -MaxScore <= g.teams[i].score
                                              /\ g.teams[i].score <= MaxScore
ElapsedWithin(g) == g.timer.elapsed_ms <= MaxClock * ClockStep

AppIdle ==
    /\ selected_team = None
    /\ awarded = {}
    /\ revealed = {}
    /\ current_index = 0
    /\ last_task_index = 0
    /\ buzz_open_mode = FALSE
    /\ commands = <<>>
    /\ phase = "idle"
    /\ now = 0
    /\ file = JNull
    /\ applied = None
    /\ show_roster = FALSE
    /\ show_help = FALSE
    /\ keys = 0

Init ==
    /\ \E names \in StartNames : gs = with_teams(names)
    /\ last = NoCall
    /\ AppIdle

(* gs becomes g after the call recorded in c, while it stays within bounds *)
Returns(g, c) ==
    /\ ScoresWithin(g)
    /\ ElapsedWithin(g)
    /\ gs' = g
    /\ last' = c
    /\ UNCHANGED appVars

AddPoints(times) ==
    \E i \in TeamArgs, p \in PointArgs, t \in times :
        Returns(add_points(gs, i, p, Some(t)), Call("add_points", Some(i), JNull, "none"))

ResetScores(times) ==
    \E t \in times : Returns(reset_scores(gs, Some(t)), Call("reset_scores", None, JNull, "none"))

OpenBuzz(times) ==
    \E t \in times : Returns(open_buzz(gs, Some(t)), Call("open_buzz", None, JNull, "none"))

ResetBuzz(times) ==
    \E t \in times : Returns(reset_buzz(gs, Some(t)), Call("reset_buzz", None, JNull, "none"))

FailAndReopen(times) ==
    \E t \in times :
        Returns(fail_locked_team_and_reopen(gs, Some(t)),
                Call("fail_and_reopen", None, JNull, "none"))

ClearBuzzBlocks ==
    Returns(clear_buzz_blocks(gs), Call("clear_buzz_blocks", None, JNull, "none"))

Buzz(times) ==
    \E i \in TeamArgs, t \in times :
        Returns(buzz(gs, i, Some(t)), Call("buzz", Some(i), JNull, Bool(buzz_returns(gs, i))))

TimerToggle(times) ==
    \E t \in times :
        Returns(timer_start_pause_toggle(gs, t), Call("timer_toggle", None, JInt(t), "none"))

TimerReset(times) ==
    \E t \in times : Returns(timer_reset(gs, t), Call("timer_reset", None, JInt(t), "none"))

Tick(times) ==
    \E t \in times : Returns(tick(gs, t), Call("tick", None, JInt(t), "none"))

SetCountdown ==
    \E target \in TargetArgs :
        Returns([gs EXCEPT !.timer = Timer_set_countdown(gs.timer, target)],
                Call("set_countdown", None, JInt(target),
                     IF set_countdown_raises(target) THEN "ValueError" ELSE "none"))

SetStopwatch ==
    Returns([gs EXCEPT !.timer = Timer_set_stopwatch(gs.timer)],
            Call("set_stopwatch", None, JNull, "none"))

(* restored = GameState.from_dict(gs.to_dict()), the caller then uses restored *)
RoundTrip ==
    Returns(from_dict(to_dict(gs)), Call("round_trip", None, to_dict(gs), "none"))

(* gs = GameState.from_dict(doc); a ValueError leaves the caller's state *)
FromDict(docs) ==
    \E doc \in docs :
        IF from_dict_raises(doc)
        THEN Returns(gs, Call("from_dict", None, doc, "ValueError"))
        ELSE Returns(from_dict(doc), Call("from_dict", None, doc, "none"))

(* Spec: the ledger, the arbiter and the codec. Time plays no part in     *)
(* them but for the expiry written beside a status: every call is made at  *)
(* the one timestamp of Epoch.                                             *)
Epoch == {0}

Next ==
    \/ AddPoints(Epoch)
    \/ ResetScores(Epoch)
    \/ OpenBuzz(Epoch)
    \/ ResetBuzz(Epoch)
    \/ FailAndReopen(Epoch)
    \/ ClearBuzzBlocks
    \/ Buzz(Epoch)
    \/ TimerToggle(Epoch)
    \/ TimerReset(Epoch)
    \/ Tick(Epoch)
    \/ RoundTrip
    \/ FromDict(ArbiterDocs)

Spec == Init /\ [][Next]_vars

(* TimerSpec: the timer, the status expiry and the codec, called with      *)
(* timestamps in any order.                                                *)
TimerNext ==
    \/ TimerToggle(Times)
    \/ TimerReset(Times)
    \/ Tick(Times)
    \/ SetCountdown
    \/ SetStopwatch
    \/ RoundTrip
    \/ FromDict(TimerDocs)

TimerSpec == Init /\ [][TimerNext]_vars

(* LedgerSpec: the states construction and the public methods reach, with  *)
(* no document but the ones to_dict writes.                                *)
LedgerNext ==
    \/ AddPoints(Epoch)
    \/ ResetScores(Epoch)
    \/ OpenBuzz(Epoch)
    \/ ResetBuzz(Epoch)
    \/ FailAndReopen(Epoch)
    \/ ClearBuzzBlocks
    \/ Buzz(Epoch)
    \/ TimerToggle(Epoch)
    \/ TimerReset(Epoch)
    \/ Tick(Epoch)
    \/ SetCountdown
    \/ SetStopwatch
    \/ RoundTrip

LedgerSpec == Init /\ [][LedgerNext]_vars

(* ConstructSpec: GameState.with_teams over every list of at most MaxNames *)
(* names: empty, blank, padded, and with a blank inside.                   *)
MaxNames == 3

NameArgs == {<<>>, <<" ">>, NameA, <<" ">> \o NameA \o <<" ">>, <<"B", " ", "C">>}

NameLists == UNION {[1..n -> NameArgs] : n \in 0..MaxNames}

names_doc(team_names) == JList([i \in 1..Len(team_names) |-> JStr(team_names[i])])

(* gs = GameState.with_teams(team_names); a ValueError leaves the caller's state *)
WithTeams ==
    \E team_names \in NameLists :
        IF with_teams_raises(team_names)
        THEN Returns(gs, Call("with_teams", None, names_doc(team_names), "ValueError"))
        ELSE Returns(with_teams(team_names),
                     Call("with_teams", None, names_doc(team_names), "none"))

ConstructNext == WithTeams

ConstructSpec == Init /\ [][ConstructNext]_vars

(* ClockSpec: the Timer called directly, as test_timer_toggle_and_tick_    *)
(* stopwatch does: start, pause and tick one at a time with any timestamp, *)
(* and whole run periods start(t0); tick(..) at most MaxTicks times;       *)
(* pause(t1) with timestamps that never go back.                           *)
MaxTicks == 2

RECURSIVE Timer_ticks(_, _)
Timer_ticks(t, stamps) ==
    IF stamps = <<>> THEN t
    ELSE Timer_ticks(Timer_tick(t, Head(stamps)), Tail(stamps))

NonDecreasing(stamps) ==
    \A k \in 1..(Len(stamps) - 1) : stamps[k] <= stamps[k + 1]

(* t0, the timestamps of the ticks, t1 *)
RunStamps ==
    {s \in UNION {[1..n -> Times] : n \in 2..(MaxTicks + 2)} : NonDecreasing(s)}

stamps_doc(stamps) == JList([i \in 1..Len(stamps) |-> JInt(stamps[i])])

StartTimer ==
    \E t \in Times :
        Returns([gs EXCEPT !.timer = Timer_start(gs.timer, t)],
                Call("start", Some(t), JNull, "none"))

PauseTimer ==
    \E t \in Times :
        Returns([gs EXCEPT !.timer = Timer_pause(gs.timer, t)],
                Call("pause", Some(t), JNull, "none"))

TickTimer ==
    \E t \in Times :
        Returns([gs EXCEPT !.timer = Timer_tick(gs.timer, t)],
                Call("timer.tick", Some(t), JNull, "none"))

RunPeriod ==
    \E s \in RunStamps :
        Returns([gs EXCEPT !.timer =
                     Timer_pause(Timer_ticks(Timer_start(gs.timer, s[1]),
                                             SubSeq(s, 2, Len(s) - 1)),
                                 s[Len(s)])],
                Call("run_period", None, stamps_doc(s), "none"))

ClockNext ==
    \/ StartTimer
    \/ PauseTimer
    \/ TickTimer
    \/ RunPeriod

ClockSpec == Init /\ [][ClockNext]_vars

(* GuardSpec: ScoringState and RevealState called directly, as their unit  *)
(* tests do, with the task ids 0..MaxId.                                   *)
MaxId == 2

GuardIds == 0..MaxId

is_awarded(s, id) == id \in s

mark_awarded_returns(s, id) == id \notin s

(* mark_awarded that reports but does not record *)
mark_awarded_forgetful(s, id) == s

mark_awarded(s, id) == IF id \in s THEN s ELSE s \cup {id}

ScoringState_reset(s, id) == s \ {id}

ScoringState_clear_all(s) == {}

is_revealed(s, id) == id \in s

toggle_returns(s, id) == id \notin s

(* toggle that only ever reveals *)
toggle_reveals(s, id) == s \cup {id}

toggle(s, id) == IF id \in s THEN s \ {id} ELSE s \cup {id}

RevealState_reset(s, id) == s \ {id}

RevealState_clear_all(s) == {}

(* the two sets become a and r after the call recorded in c *)
GuardReturns(a, r, c) ==
    /\ awarded' = a
    /\ revealed' = r
    /\ last' = c
    /\ UNCHANGED <<gs, selected_team, current_index, last_task_index,
                   buzz_open_mode, commands, phase, now, file, applied,
                   show_roster, show_help, keys>>

IsAwarded ==
    \E id \in GuardIds :
        GuardReturns(awarded, revealed,
                     Call("is_awarded", None, JInt(id), Bool(is_awarded(awarded, id))))

MarkAwarded ==
    \E id \in GuardIds :
        GuardReturns(mark_awarded(awarded, id), revealed,
                     Call("mark_awarded", None, JInt(id),
                          Bool(mark_awarded_returns(awarded, id))))

ResetAwarded ==
    \E id \in GuardIds :
        GuardReturns(ScoringState_reset(awarded, id), revealed,
                     Call("scoring.reset", None, JInt(id), "none"))

ClearAllAwarded ==
    GuardReturns(ScoringState_clear_all(awarded), revealed,
                 Call("scoring.clear_all", None, JNull, "none"))

IsRevealed ==
    \E id \in GuardIds :
        GuardReturns(awarded, revealed,
                     Call("is_revealed", None, JInt(id), Bool(is_revealed(revealed, id))))

Toggle ==
    \E id \in GuardIds :
        GuardReturns(awarded, toggle(revealed, id),
                     Call("toggle", None, JInt(id), Bool(toggle_returns(revealed, id))))

ResetRevealed ==
    \E id \in GuardIds :
        GuardReturns(awarded, RevealState_reset(revealed, id),
                     Call("reveal.reset", None, JInt(id), "none"))

ClearAllRevealed ==
    GuardReturns(awarded, RevealState_clear_all(revealed),
                 Call("reveal.clear_all", None, JNull, "none"))

GuardNext ==
    \/ IsAwarded
    \/ MarkAwarded
    \/ ResetAwarded
    \/ ClearAllAwarded
    \/ IsRevealed
    \/ Toggle
    \/ ResetRevealed
    \/ ClearAllRevealed

GuardSpec == Init /\ [][GuardNext]_vars

(* ResetSpec: reset_scores called on games with scores, a buzz round with  *)
(* blocked teams under way, and a stopwatch or countdown that has run.     *)
ResetNext ==
    \/ AddPoints(Epoch)
    \/ OpenBuzz(Epoch)
    \/ Buzz(Epoch)
    \/ FailAndReopen(Epoch)
    \/ TimerToggle(Times)
    \/ SetCountdown
    \/ ResetScores(Times)

ResetSpec == Init /\ [][ResetNext]_vars

(* StopwatchSpec: every method of the Timer that changes it, called with   *)
(* timestamps in any order, backwards too.                                 *)
StopwatchNext ==
    \/ StartTimer
    \/ PauseTimer
    \/ TickTimer
    \/ TimerReset(Times)
    \/ SetCountdown
    \/ SetStopwatch

StopwatchSpec == Init /\ [][StopwatchNext]_vars

-----------------------------------------------------------------------------
(* The application: Application._game_loop and what it calls. AppSpec runs *)
(* the loop over every sequence of at most MaxKeys key events, delivered   *)
(* in batches of at most MaxBatch events per iteration. A key that is not  *)
(* bound yields no command and is left out. The loop reads the clock as    *)
(* the timestamp of Epoch: what the timer and the status expiry do with    *)
(* time is the subject of TimerSpec.                                       *)

NumTasks == 2        \* tasks in the deck
MaxKeys == 4         \* key events in a run
MaxBatch == 2        \* key events pending at one poll_commands

(* TaskLoader gives task number i the id i *)
task_id(index) == index

(* the deck: task number i has difficulty i + 1, within 1..5 *)
difficulty(index) == 1 + (index % 5)

(* next_task that stops short of wrapping: it runs off the end of the deck *)
next_task_unwrapped(index) == index + 1

next_task(index) == (index + 1) % NumTasks
prev_task(index) == (index - 1) % NumTasks

Command(type, team_index) == [type |-> type, team_index |-> team_index]

(* a KEYDOWN event: a bound key, or team key 1, 2 or 3 of the nine with   *)
(* its team_index                                                          *)
Key(name, team_index) == [name |-> name, team_index |-> team_index]

TeamKeys == 0..2

Keys ==
    {Key(name, None) :
        name \in {"QUIT", "NEXT", "PREV", "BUZZ_OPEN", "BUZZ_RESET", "BUZZ_FAIL",
                  "AWARD", "PENALTY", "TIMER_TOGGLE", "TIMER_RESET",
                  "TOGGLE_ROSTER", "TOGGLE_HELP", "SAVE", "LOAD", "TOGGLE_REVEAL"}}
    \cup {Key("TEAM", Some(team_index)) : team_index \in TeamKeys}

(* the file at Application._game_state_path: a JSON value, or no readable  *)
(* JSON at all                                                             *)
Unreadable == [t |-> "unreadable", v |-> 0]

load_state_raises(f) == f = Unreadable \/ from_dict_raises(f)

(* files an earlier session left behind *)
StartFiles ==
    {Unreadable,
     Doc(1, OneTeam, BuzzDoc(LOCKED, JInt(0)), PausedTimerDoc),
     Doc(1, TwoTeams, BuzzDoc(LOCKED, JInt(1)), PausedTimerDoc),
     Doc(1, TwoTeams, BuzzDoc(OPEN, JInt(1)), PausedTimerDoc)}

AppStartNames == {<<NameA, NameB>>}

AppInit ==
    /\ \E names \in AppStartNames : gs = with_teams(names)
    /\ last = NoCall
    /\ selected_team = Some(0)
    /\ awarded = {}
    /\ revealed = {}
    /\ current_index = 0
    /\ last_task_index = 0
    /\ buzz_open_mode = FALSE
    /\ commands = <<>>
    /\ phase = "poll"
    /\ now \in Epoch
    /\ file \in StartFiles
    /\ applied = None
    /\ show_roster = FALSE
    /\ show_help = FALSE
    /\ keys = 0

(* InputController._map_keydown: the command, and the session's index and *)
(* the buzz-open flag it leaves                                            *)
Mapped(cmd, index, mode) == [cmd |-> cmd, index |-> index, mode |-> mode]

map_keydown(key, index, mode) ==
    CASE key.name = "NEXT" -> Mapped(Command("NEXT", None), next_task(index), mode)
      [] key.name = "PREV" -> Mapped(Command("PREV", None), prev_task(index), mode)
      [] key.name = "BUZZ_OPEN" -> Mapped(Command("BUZZ_OPEN", None), index, TRUE)
      [] key.name \in {"BUZZ_RESET", "BUZZ_FAIL"} ->
            Mapped(Command(key.name, None), index, FALSE)
      [] key.name = "TEAM" ->
            IF mode THEN Mapped(Command("BUZZ", key.team_index), index, FALSE)
            ELSE Mapped(Command("SELECT_TEAM", key.team_index), index, mode)
      [] OTHER -> Mapped(Command(key.name, None), index, mode)

(* InputController.poll_commands over the pending events *)
Polled(running, cmds, index, mode) ==
    [running |-> running, commands |-> cmds, index |-> index, mode |-> mode]

RECURSIVE poll_commands(_, _, _, _)
poll_commands(events, cmds, index, mode) ==
    IF events = <<>> THEN Polled(TRUE, cmds, index, mode)
    ELSE LET m == map_keydown(Head(events), index, mode) IN
         IF m.cmd.type = "QUIT" THEN Polled(FALSE, <<m.cmd>>, m.index, m.mode)
         ELSE poll_commands(Tail(events), Append(cmds, m.cmd), m.index, m.mode)

(* the events pending at one iteration of the loop *)
Batches == UNION {[1..n -> Keys] : n \in 0..MaxBatch}

(* the head of _game_loop: poll_commands, then game_state.tick(now_ms), or *)
(* the break on QUIT; the pending events are one of batches, and budget    *)
(* key events are delivered in a run                                       *)
PollFrom(batches, budget) ==
    /\ phase = "poll"
    /\ \E events \in batches :
        LET p == poll_commands(events, <<>>, current_index, buzz_open_mode) IN
        /\ keys + Len(events) <= budget
        /\ keys' = keys + Len(events)
        /\ commands' = p.commands
        /\ current_index' = p.index
        /\ buzz_open_mode' = p.mode
        /\ IF p.running
           THEN phase' = "apply" /\ gs' = tick(gs, now)
           ELSE phase' = "quit" /\ gs' = gs
    /\ UNCHANGED <<last, selected_team, awarded, revealed, last_task_index,
                   now, file, applied, show_roster, show_help>>

Poll == PollFrom(Batches, MaxKeys)

(* _apply_command(cmd, now_ms) for the next command of the batch *)
Applying(type) ==
    /\ phase = "apply"
    /\ commands # <<>>
    /\ Head(commands).type = type
    /\ commands' = Tail(commands)
    /\ applied' = Some(Head(commands))
    /\ UNCHANGED <<last, current_index, last_task_index, buzz_open_mode,
                   phase, now, keys>>

status_now(g, message) == set_status(g, message, now, StatusDurationMs)

(* the team Award and Penalty act on *)
target_team(g, selected) ==
    IF IsSome(g.buzz_locked_team) THEN g.buzz_locked_team ELSE selected

(* an award that falls back to the first team when no target resolves *)
award_points_first_team(g, index, selected) ==
    IF IsNone(target_team(g, selected)) THEN add_points(g, 0, difficulty(index), Some(now))
    ELSE add_points(g, Val(target_team(g, selected)), difficulty(index), Some(now))

award_points_for_current_task(g, index, selected) ==
    IF IsNone(target_team(g, selected)) THEN status_now(g, <<"No team selected">>)
    ELSE add_points(g, Val(target_team(g, selected)), difficulty(index), Some(now))

ApplyToggleRoster ==
    /\ Applying("TOGGLE_ROSTER")
    /\ show_roster' = ~show_roster
    /\ show_help' = IF ~show_roster THEN FALSE ELSE show_help
    /\ UNCHANGED <<gs, selected_team, awarded, revealed, file>>

ApplyToggleHelp ==
    /\ Applying("TOGGLE_HELP")
    /\ show_help' = ~show_help
    /\ show_roster' = IF ~show_help THEN FALSE ELSE show_roster
    /\ UNCHANGED <<gs, selected_team, awarded, revealed, file>>

(* SelectTeam that does not look at the buzz state *)
ApplySelectTeam_any_state ==
    /\ Applying("SELECT_TEAM")
    /\ LET team_index == Val(Head(commands).team_index) IN
       IF ValidIndex(gs, team_index)
       THEN /\ selected_team' = Some(team_index)
            /\ gs' = status_now(gs, <<"Selected: ">> \o TeamAt(gs, team_index).name)
       ELSE UNCHANGED <<gs, selected_team>>
    /\ UNCHANGED <<awarded, revealed, file, show_roster, show_help>>

ApplySelectTeam ==
    /\ Applying("SELECT_TEAM")
    /\ LET team_index == Val(Head(commands).team_index) IN
       IF gs.buzz_state # LOCKED /\ ValidIndex(gs, team_index)
       THEN /\ selected_team' = Some(team_index)
            /\ gs' = status_now(gs, <<"Selected: ">> \o TeamAt(gs, team_index).name)
       ELSE UNCHANGED <<gs, selected_team>>
    /\ UNCHANGED <<awarded, revealed, file, show_roster, show_help>>

ApplyBuzz ==
    /\ Applying("BUZZ")
    /\ LET team_index == Val(Head(commands).team_index) IN
       /\ gs' = buzz(gs, team_index, Some(now))
       /\ selected_team' = IF buzz_returns(gs, team_index) THEN Some(team_index)
                           ELSE selected_team
    /\ UNCHANGED <<awarded, revealed, file, show_roster, show_help>>

(* a BUZZ_FAIL that also takes the task's points from the failed team *)
ApplyBuzzFail_penalises ==
    /\ Applying("BUZZ_FAIL")
    /\ gs' = fail_locked_team_and_reopen(
                 IF IsSome(gs.buzz_locked_team)
                 THEN add_points_unblocked(gs, Val(gs.buzz_locked_team),
                                           -difficulty(current_index), Some(now))
                 ELSE gs,
                 Some(now))
    /\ UNCHANGED <<selected_team, awarded, revealed, file, show_roster, show_help>>

ApplyBuzzFail ==
    /\ Applying("BUZZ_FAIL")
    /\ gs' = fail_locked_team_and_reopen(gs, Some(now))
    /\ UNCHANGED <<selected_team, awarded, revealed, file, show_roster, show_help>>

(* LOAD clamping the selection before load_state is known to succeed *)
ApplyLoad_clamped ==
    /\ Applying("LOAD")
    /\ selected_team' = Some(0)
    /\ IF load_state_raises(file)
       THEN gs' = status_now(gs, <<"Failed to load game state: ">>)
       ELSE gs' = status_now(from_dict(file), <<"Loaded">>)
    /\ UNCHANGED <<awarded, revealed, file, show_roster, show_help>>

(* Award without its own check of buzz_blocked_teams *)
ApplyAward_unblocked ==
    /\ Applying("AWARD")
    /\ LET target == target_team(gs, selected_team) IN
       IF task_id(current_index) \in awarded
       THEN gs' = status_now(gs, <<"Already awarded">>) /\ UNCHANGED awarded
       ELSE IF IsNone(target)
       THEN gs' = status_now(gs, <<"No team selected">>) /\ UNCHANGED awarded
       ELSE /\ gs' = reset_buzz(
                        award_points_for_current_task(gs, current_index, selected_team),
                        Some(now))
            /\ awarded' = awarded \cup {task_id(current_index)}
    /\ UNCHANGED <<selected_team, revealed, file, show_roster, show_help>>

(* Award that leaves the buzzer as it is after crediting the points *)
ApplyAward_keeps_lock ==
    /\ Applying("AWARD")
    /\ LET target == target_team(gs, selected_team) IN
       IF task_id(current_index) \in awarded
       THEN gs' = status_now(gs, <<"Already awarded">>) /\ UNCHANGED awarded
       ELSE IF IsNone(target)
       THEN gs' = status_now(gs, <<"No team selected">>) /\ UNCHANGED awarded
       ELSE IF Val(target) \in gs.buzz_blocked_teams
       THEN /\ gs' = status_now(gs, <<"BLOCKED: ">> \o TeamAt(gs, Val(target)).name)
            /\ UNCHANGED awarded
       ELSE /\ gs' = award_points_for_current_task(gs, current_index, selected_team)
            /\ awarded' = awarded \cup {task_id(current_index)}
    /\ UNCHANGED <<selected_team, revealed, file, show_roster, show_help>>

(* Award without the ScoringState guard *)
ApplyAward_unguarded ==
    /\ Applying("AWARD")
    /\ gs' = reset_buzz(
                award_points_for_current_task(gs, current_index, selected_team),
                Some(now))
    /\ awarded' = awarded \cup {task_id(current_index)}
    /\ UNCHANGED <<selected_team, revealed, file, show_roster, show_help>>

ApplyAward ==
    /\ Applying("AWARD")
    /\ LET target == target_team(gs, selected_team) IN
       IF task_id(current_index) \in awarded
       THEN gs' = status_now(gs, <<"Already awarded">>) /\ UNCHANGED awarded
       ELSE IF IsNone(target)
       THEN gs' = status_now(gs, <<"No team selected">>) /\ UNCHANGED awarded
       ELSE IF Val(target) \in gs.buzz_blocked_teams
       THEN /\ gs' = status_now(gs, <<"BLOCKED: ">> \o TeamAt(gs, Val(target)).name)
            /\ UNCHANGED awarded
       ELSE /\ gs' = reset_buzz(
                        award_points_for_current_task(gs, current_index, selected_team),
                        Some(now))
            /\ awarded' = awarded \cup {task_id(current_index)}
    /\ UNCHANGED <<selected_team, revealed, file, show_roster, show_help>>

(* Penalty held back by the ScoringState guard, as Award is *)
ApplyPenalty_guarded ==
    /\ Applying("PENALTY")
    /\ LET team_index == target_team(gs, selected_team) IN
       gs' = IF task_id(current_index) \in awarded THEN status_now(gs, <<"Already awarded">>)
             ELSE IF IsNone(team_index) THEN status_now(gs, <<"No team selected">>)
             ELSE add_points(gs, Val(team_index), -difficulty(current_index), Some(now))
    /\ UNCHANGED <<selected_team, awarded, revealed, file, show_roster, show_help>>

ApplyPenalty ==
    /\ Applying("PENALTY")
    /\ LET team_index == target_team(gs, selected_team) IN
       gs' = IF IsNone(team_index) THEN status_now(gs, <<"No team selected">>)
             ELSE add_points(gs, Val(team_index), -difficulty(current_index), Some(now))
    /\ UNCHANGED <<selected_team, awarded, revealed, file, show_roster, show_help>>

ApplyBuzzOpen ==
    /\ Applying("BUZZ_OPEN")
    /\ gs' = open_buzz(gs, Some(now))
    /\ UNCHANGED <<selected_team, awarded, revealed, file, show_roster, show_help>>

ApplyBuzzReset ==
    /\ Applying("BUZZ_RESET")
    /\ gs' = reset_buzz(gs, Some(now))
    /\ UNCHANGED <<selected_team, awarded, revealed, file, show_roster, show_help>>

ApplyTimerToggle ==
    /\ Applying("TIMER_TOGGLE")
    /\ gs' = timer_start_pause_toggle(gs, now)
    /\ UNCHANGED <<selected_team, awarded, revealed, file, show_roster, show_help>>

ApplyTimerReset ==
    /\ Applying("TIMER_RESET")
    /\ gs' = timer_reset(gs, now)
    /\ UNCHANGED <<selected_team, awarded, revealed, file, show_roster, show_help>>

(* save_state: the write succeeds, or fails before or after truncating *)
ApplySave ==
    /\ Applying("SAVE")
    /\ \/ /\ file' = to_dict(gs)
          /\ gs' = status_now(gs, <<"Saved">>)
       \/ /\ file' \in {file, Unreadable}
          /\ gs' = status_now(gs, <<"Failed to save game state: ">>)
    /\ UNCHANGED <<selected_team, awarded, revealed, show_roster, show_help>>

(* Load that leaves the selection where it was *)
ApplyLoad_keeps_selection ==
    /\ Applying("LOAD")
    /\ IF load_state_raises(file)
       THEN gs' = status_now(gs, <<"Failed to load game state: ">>)
       ELSE gs' = status_now(from_dict(file), <<"Loaded">>)
    /\ UNCHANGED <<selected_team, awarded, revealed, file, show_roster, show_help>>

ApplyLoad ==
    /\ Applying("LOAD")
    /\ IF load_state_raises(file)
       THEN /\ gs' = status_now(gs, <<"Failed to load game state: ">>)
            /\ UNCHANGED selected_team
       ELSE /\ gs' = status_now(from_dict(file), <<"Loaded">>)
            /\ selected_team' = Some(Min(IF IsNone(selected_team) THEN 0
                                         ELSE Val(selected_team),
                                         NumTeams(from_dict(file)) - 1))
    /\ UNCHANGED <<awarded, revealed, file, show_roster, show_help>>

ApplyToggleReveal ==
    /\ Applying("TOGGLE_REVEAL")
    /\ IF task_id(current_index) \in revealed
       THEN /\ revealed' = revealed \ {task_id(current_index)}
            /\ gs' = status_now(gs, <<"Hidden">>)
       ELSE /\ revealed' = revealed \cup {task_id(current_index)}
            /\ gs' = status_now(gs, <<"Revealed">>)
    /\ UNCHANGED <<selected_team, awarded, file, show_roster, show_help>>

(* NEXT and PREV have no branch in _apply_command *)
ApplyNavigation ==
    /\ \/ Applying("NEXT")
       \/ Applying("PREV")
    /\ UNCHANGED <<gs, selected_team, awarded, revealed, file, show_roster, show_help>>

(* _render_frame that hides the task it leaves but not the one it shows *)
RenderFrame_resets_previous ==
    /\ phase = "apply"
    /\ commands = <<>>
    /\ phase' = "poll"
    /\ now' \in Epoch
    /\ IF current_index # last_task_index
       THEN /\ revealed' = revealed \ {task_id(last_task_index)}
            /\ gs' = clear_buzz_blocks(gs)
            /\ last_task_index' = current_index
       ELSE UNCHANGED <<gs, revealed, last_task_index>>
    /\ UNCHANGED <<last, selected_team, awarded, current_index, buzz_open_mode,
                   commands, file, applied, show_roster, show_help, keys>>

(* _render_frame that resets the scoring guard of the two tasks as it     *)
(* resets their reveal state                                               *)
RenderFrame_resets_awards ==
    /\ phase = "apply"
    /\ commands = <<>>
    /\ phase' = "poll"
    /\ now' \in Epoch
    /\ IF current_index # last_task_index
       THEN /\ revealed' = revealed \ {task_id(last_task_index), task_id(current_index)}
            /\ awarded' = awarded \ {task_id(last_task_index), task_id(current_index)}
            /\ gs' = clear_buzz_blocks(gs)
            /\ last_task_index' = current_index
       ELSE UNCHANGED <<gs, revealed, awarded, last_task_index>>
    /\ UNCHANGED <<last, selected_team, current_index, buzz_open_mode,
                   commands, file, applied, show_roster, show_help, keys>>

(* _render_frame, then the next iteration reads the clock *)
RenderFrame ==
    /\ phase = "apply"
    /\ commands = <<>>
    /\ phase' = "poll"
    /\ now' \in Epoch
    /\ IF current_index # last_task_index
       THEN /\ revealed' = revealed \ {task_id(last_task_index), task_id(current_index)}
            /\ gs' = clear_buzz_blocks(gs)
            /\ last_task_index' = current_index
       ELSE UNCHANGED <<gs, revealed, last_task_index>>
    /\ UNCHANGED <<last, selected_team, awarded, current_index, buzz_open_mode,
                   commands, file, applied, show_roster, show_help, keys>>

(* StoreSpec: the application started beside a file that load_state       *)
(* rejects, one file for each way it does                                  *)
StoreInit ==
    /\ \E names \in AppStartNames : gs = with_teams(names)
    /\ last = NoCall
    /\ selected_team = Some(0)
    /\ awarded = {}
    /\ revealed = {}
    /\ current_index = 0
    /\ last_task_index = 0
    /\ buzz_open_mode = FALSE
    /\ commands = <<>>
    /\ phase = "poll"
    /\ now \in Epoch
    /\ file \in MalformedDocs
    /\ applied = None
    /\ show_roster = FALSE
    /\ show_help = FALSE
    /\ keys = 0

AppNext ==
    \/ Poll
    \/ ApplyToggleRoster
    \/ ApplyToggleHelp
    \/ ApplySelectTeam
    \/ ApplyBuzz
    \/ ApplyBuzzFail
    \/ ApplyAward
    \/ ApplyPenalty
    \/ ApplyBuzzOpen
    \/ ApplyBuzzReset
    \/ ApplyTimerToggle
    \/ ApplyTimerReset
    \/ ApplySave
    \/ ApplyLoad
    \/ ApplyToggleReveal
    \/ ApplyNavigation
    \/ RenderFrame

AppSpec == AppInit /\ [][AppNext]_vars

-----------------------------------------------------------------------------
StoreSpec == StoreInit /\ [][AppNext]_vars

(* ShowSpec: award_points_for_current_task called as the unit tests call  *)
(* it, with any selected_team_index, on a GameState the arbiter calls      *)
(* brought into any of its states.                                         *)
SelectedArgs == {None} \cup {Some(i) : i \in TeamArgs}

(* the value award_points_for_current_task returns *)
award_returns(g, selected) ==
    IF IsNone(target_team(g, selected)) THEN "none"
    ELSE ToString(Val(target_team(g, selected)))

AwardPoints ==
    \E selected \in SelectedArgs :
        Returns(award_points_for_current_task(gs, current_index, selected),
                Call("award", selected, JNull, award_returns(gs, selected)))

ShowNext ==
    \/ OpenBuzz(Epoch)
    \/ Buzz(Epoch)
    \/ FailAndReopen(Epoch)
    \/ ResetBuzz(Epoch)
    \/ ClearBuzzBlocks
    \/ AwardPoints

ShowSpec == Init /\ [][ShowNext]_vars

(* RoundSpec: one round of the game show played longer. The keys are the  *)
(* ones of buzzing, scoring, selection and navigation, RoundKeys of them   *)
(* in a run, and no file is there to load.                                 *)
RoundKeys == MaxKeys + 2

RoundKeySet ==
    {Key(name, None) :
        name \in {"NEXT", "PREV", "BUZZ_OPEN", "BUZZ_RESET", "BUZZ_FAIL",
                  "AWARD", "PENALTY"}}
    \cup {Key("TEAM", Some(team_index)) : team_index \in TeamKeys}

RoundBatches == UNION {[1..n -> RoundKeySet] : n \in 0..MaxBatch}

RoundInit == AppInit /\ file = Unreadable

RoundPoll == PollFrom(RoundBatches, RoundKeys)

RoundNext ==
    \/ RoundPoll
    \/ ApplySelectTeam
    \/ ApplyBuzz
    \/ ApplyBuzzFail
    \/ ApplyAward
    \/ ApplyPenalty
    \/ ApplyBuzzOpen
    \/ ApplyBuzzReset
    \/ ApplyNavigation
    \/ RenderFrame

RoundSpec == RoundInit /\ [][RoundNext]_vars

(* SlideSpec: the presentation alone: the keys are NEXT, PREV and          *)
(* TOGGLE_REVEAL, RoundKeys of them in a run, up to MaxBatch + 1 pending   *)
(* at one poll.                                                            *)
SlideKeySet == {Key(name, None) : name \in {"NEXT", "PREV", "TOGGLE_REVEAL"}}

SlideBatches == UNION {[1..n -> SlideKeySet] : n \in 0..(MaxBatch + 1)}

SlidePoll == PollFrom(SlideBatches, RoundKeys)

SlideNext ==
    \/ SlidePoll
    \/ ApplyToggleReveal
    \/ ApplyNavigation
    \/ RenderFrame

SlideSpec == RoundInit /\ [][SlideNext]_vars

(* Properties *)

Arbiter(g) == <<g.buzz_state, g.buzz_locked_team, g.buzz_blocked_teams>>
Status(g) == <<g.status_message, g.status_until_ms>>

(* C3: first buzz wins. buzz(team) changes the arbiter only when the state *)
(* is Open and team is a valid index that is not blocked: the state then   *)
(* becomes Locked with locked_team = team and the call returns True. In    *)
(* Closed or Locked every buzz returns False and leaves the state, the     *)
(* locked team, the blocked teams and the status as they were.             *)
C3_FirstBuzzWins ==
    [][last'.op = "buzz" =>
        LET team == Val(last'.team) IN
        /\ gs.buzz_state # OPEN =>
              /\ last'.ret = "false"
              /\ Arbiter(gs') = Arbiter(gs)
              /\ Status(gs') = Status(gs)
        /\ (gs.buzz_state = OPEN /\ ValidIndex(gs, team)
               /\ team \notin gs.buzz_blocked_teams) =>
              /\ last'.ret = "true"
              /\ gs'.buzz_state = LOCKED
              /\ gs'.buzz_locked_team = Some(team)
              /\ gs'.buzz_blocked_teams = gs.buzz_blocked_teams
        /\ Arbiter(gs') # Arbiter(gs) =>
              /\ gs.buzz_state = OPEN
              /\ ValidIndex(gs, team)
              /\ team \notin gs.buzz_blocked_teams
        /\ gs'.teams = gs.teams
    ]_vars

(* a buzz was refused because another team holds the lock *)
C3_Witness ==
    /\ last.op = "buzz"
    /\ last.ret = "false"
    /\ gs.buzz_state = LOCKED
    /\ IsSome(gs.buzz_locked_team)
    /\ ValidIndex(gs, Val(last.team))
    /\ gs.buzz_locked_team # last.team

(* C4: fail_and_reopen on a Locked arbiter with locked team T yields Open, *)
(* no locked team, and T among the blocked teams. While T is blocked and   *)
(* the arbiter is Open, buzz(T) returns False, leaves the arbiter as it is *)
(* and sets the status "BLOCKED: {name}"; a buzz of another valid team     *)
(* that is not blocked returns True and locks that team.                   *)
C4_FailBlocksAndReopens ==
    [][/\ (last'.op = "fail_and_reopen" /\ gs.buzz_state = LOCKED
              /\ IsSome(gs.buzz_locked_team)) =>
              /\ gs'.buzz_state = OPEN
              /\ gs'.buzz_locked_team = None
              /\ gs'.buzz_blocked_teams =
                     gs.buzz_blocked_teams \cup {Val(gs.buzz_locked_team)}
       /\ (last'.op = "buzz" /\ gs.buzz_state = OPEN
              /\ ValidIndex(gs, Val(last'.team))) =>
              LET team == Val(last'.team) IN
              IF team \in gs.buzz_blocked_teams
              THEN /\ last'.ret = "false"
                   /\ Arbiter(gs') = Arbiter(gs)
                   /\ gs'.status_message =
                          Some(<<"BLOCKED: ">> \o TeamAt(gs, team).name)
              ELSE /\ last'.ret = "true"
                   /\ gs'.buzz_state = LOCKED
                   /\ gs'.buzz_locked_team = Some(team)
    ]_vars

(* the team that failed buzzed again and was refused, the buzzer still open *)
C4_Witness ==
    /\ last.op = "buzz"
    /\ last.ret = "false"
    /\ gs.buzz_state = OPEN
    /\ Val(last.team) \in gs.buzz_blocked_teams
    /\ gs.status_message = Some(<<"BLOCKED: ">> \o TeamAt(gs, Val(last.team)).name)

(* C5: add_points never changes the score of a blocked team, whatever the  *)
(* sign of the points; and a blocked team stays blocked over open_buzz,    *)
(* buzz, fail_and_reopen, add_points and the timer calls: only             *)
(* clear_buzz_blocks, reset_buzz and reset_scores take a team out of       *)
(* blocked_teams of a GameState (from_dict builds another GameState).      *)
C5_BlockedTeamKeepsScore ==
    [][/\ last'.op = "add_points" =>
              /\ \A i \in gs.buzz_blocked_teams : TeamAt(gs', i) = TeamAt(gs, i)
              /\ Val(last'.team) \in gs.buzz_blocked_teams => gs'.teams = gs.teams
       /\ last'.op \in {"open_buzz", "buzz", "fail_and_reopen", "add_points",
                        "timer_toggle", "timer_reset", "tick"} =>
              gs.buzz_blocked_teams \subseteq gs'.buzz_blocked_teams
       /\ ~(gs.buzz_blocked_teams \subseteq gs'.buzz_blocked_teams) =>
              last'.op \in {"clear_buzz_blocks", "reset_buzz", "reset_scores",
                            "from_dict", "round_trip"}
    ]_vars

(* points were offered to a blocked team and refused *)
C5_Witness ==
    /\ last.op = "add_points"
    /\ Val(last.team) \in gs.buzz_blocked_teams
    /\ gs.status_message = Some(<<"BLOCKED: ">> \o TeamAt(gs, Val(last.team)).name)

(* C6: in every reachable GameState, built by with_teams and the calls or  *)
(* by from_dict, locked_team is set if and only if the state is Locked.    *)
C6_LockedTeamIffLocked ==
    IsSome(gs.buzz_locked_team) <=> gs.buzz_state = LOCKED

(* C7: in every reachable GameState, also one from_dict built for a        *)
(* smaller roster, locked_team when set and every blocked team is a valid  *)
(* index into teams.                                                       *)
C7_IndicesValid ==
    /\ IsSome(gs.buzz_locked_team) => ValidIndex(gs, Val(gs.buzz_locked_team))
    /\ \A i \in gs.buzz_blocked_teams : ValidIndex(gs, i)

(* from_dict read a lock on an index the roster of the document lacks *)
C7_Witness ==
    /\ last.op = "from_dict"
    /\ last.ret = "none"
    /\ LET locked_team == get(get(last.doc, "buzz", EmptyDict), "locked_team", JNull)
       IN /\ is_int(locked_team)
          /\ ~ValidIndex(gs, int_of(locked_team))

(* what to_dict is meant to carry: the ledger, the arbiter and the timer *)
Game(g) == <<g.teams, Arbiter(g), g.timer>>

(* C8: from_dict(to_dict(s)) = s for every reachable s whose timer is not  *)
(* running: same scores, same arbiter with its blocked teams, same timer.  *)
C8_RoundTrip ==
    ~gs.timer.running => Game(from_dict(to_dict(gs))) = Game(gs)

(* C12: from_dict checks the version of the document: a document whose     *)
(* version is not 1, or that has no version, is refused with an error      *)
(* instead of producing a GameState.                                       *)
C12_VersionChecked ==
    (/\ last.op = "from_dict"
     /\ is_dict(last.doc)
     /\ get(last.doc, "version", JNull) # JInt(1)) =>
        last.ret = "ValueError"

(* C15: award_points_for_current_task returns a team index only when that *)
(* team's score grew by the task's difficulty; when nothing was awarded    *)
(* (no team resolved, the target blocked or out of range) it returns None  *)
(* and the scores are as before.                                           *)
C15_AwardReturnsAwardedTeam ==
    [][last'.op = "award" =>
          IF last'.ret = "none" THEN Scores(gs') = Scores(gs)
          ELSE \E i \in 0..(NumTeams(gs) - 1) :
                  /\ last'.ret = ToString(i)
                  /\ TeamAt(gs', i).score =
                         TeamAt(gs, i).score + difficulty(current_index)
    ]_vars

(* C18: award_points_for_current_task called with no locked team and no    *)
(* selected team returns None, sets the status "No team selected", and     *)
(* changes no score, nothing of the arbiter and nothing of the awarded set. *)
C18_AwardWithoutTeam ==
    [][(/\ last'.op = "award"
        /\ gs.buzz_locked_team = None
        /\ last'.team = None) =>
          /\ last'.ret = "none"
          /\ gs'.status_message = Some(<<"No team selected">>)
          /\ gs'.teams = gs.teams
          /\ Arbiter(gs') = Arbiter(gs)
          /\ awarded' = awarded
    ]_vars

(* an award without any team, made while the buzzer is open *)
C18_Witness ==
    /\ last = Call("award", None, JNull, "none")
    /\ gs.buzz_state = OPEN
    /\ gs.buzz_locked_team = None
    /\ gs.status_message = Some(<<"No team selected">>)

(* C21: add_points and buzz called with a team index outside 0..len-1,     *)
(* a negative one included, raise nothing and change nothing: the scores,  *)
(* the buzz state, the locked team, the blocked teams and the status are   *)
(* as they were, and buzz returns False.                                   *)
C21_InvalidIndexIgnored ==
    [][(/\ last'.op \in {"add_points", "buzz"}
        /\ ~ValidIndex(gs, Val(last'.team))) =>
          /\ gs' = gs
          /\ last'.ret = IF last'.op = "buzz" THEN "false" ELSE "none"
    ]_vars

(* a buzz for index -1 while the buzzer is open *)
C21_Witness ==
    /\ last = Call("buzz", Some(-1), JNull, "false")
    /\ gs.buzz_state = OPEN
    /\ gs.buzz_locked_team = None
    /\ gs.status_message = Some(<<"BUZZ OPEN">>)

(* C22: with_teams(names) succeeds exactly when some name is not blank.    *)
(* The teams are then the names that are not blank, each without its       *)
(* leading and trailing blanks, in the order they were given, each with    *)
(* score 0; the buzzer is Closed with no locked and no blocked team, and   *)
(* the timer is a paused stopwatch at 0. When every name is blank the call *)
(* raises ValueError.                                                      *)
C22_ConstructionFromNames ==
    last.op = "with_teams" =>
        LET names == [i \in 1..Len(last.doc.v) |-> last.doc.v[i].v]
            blank(s) == \A k \in 1..Len(s) : s[k] = " "
            first(s) == CHOOSE a \in 1..Len(s) :
                            s[a] # " " /\ \A k \in 1..(a - 1) : s[k] = " "
            final(s) == CHOOSE b \in 1..Len(s) :
                            s[b] # " " /\ \A k \in (b + 1)..Len(s) : s[k] = " "
            trimmed(s) == SubSeq(s, first(s), final(s))
            kept == {j \in 1..Len(names) : ~blank(names[j])}
            rank(j) == Cardinality({k \in kept : k <= j})
        IN  IF kept = {} THEN last.ret = "ValueError"
            ELSE /\ last.ret = "none"
                 /\ NumTeams(gs) = Cardinality(kept)
                 /\ \A j \in kept : gs.teams[rank(j)] = Team(trimmed(names[j]), 0)
                 /\ gs.buzz_state = CLOSED
                 /\ gs.buzz_locked_team = None
                 /\ gs.buzz_blocked_teams = {}
                 /\ gs.timer.mode = STOPWATCH
                 /\ ~gs.timer.running
                 /\ gs.timer.elapsed_ms = 0

(* a padded name, a blank one and a name with a blank inside *)
C22_Witness ==
    /\ last = Call("with_teams", None,
                   names_doc(<< <<" ">> \o NameA \o <<" ">>, <<" ">>, <<"B", " ", "C">> >>),
                   "none")
    /\ gs.teams = <<Team(NameA, 0), Team(<<"B", " ", "C">>, 0)>>

(* C23: timer accounting is exact for timestamps that never go back. A    *)
(* paused timer taken through start(t0), any number of ticks at times      *)
(* between t0 and t1, and pause(t1) has elapsed_ms grown by exactly        *)
(* t1 - t0, however many ticks there were, and is paused again. start on a *)
(* running timer, and tick or pause on a paused one, change nothing.       *)
C23_TimerAccountingExact ==
    [][/\ (last'.op = "run_period" /\ ~gs.timer.running) =>
              /\ gs'.timer.elapsed_ms =
                     gs.timer.elapsed_ms +
                         (last'.doc.v[Len(last'.doc.v)].v - last'.doc.v[1].v)
              /\ ~gs'.timer.running
              /\ gs'.timer.last_start_ms = None
       /\ (last'.op = "start" /\ gs.timer.running) => gs' = gs
       /\ (last'.op \in {"pause", "timer.tick"} /\ ~gs.timer.running) => gs' = gs
    ]_vars

(* start(0); tick(ClockStep); tick(ClockStep); pause(2 * ClockStep) *)
C23_Witness ==
    /\ last = Call("run_period", None,
                   stamps_doc(<<0, ClockStep, ClockStep, 2 * ClockStep>>), "none")
    /\ gs.timer.elapsed_ms = 2 * ClockStep
    /\ ~gs.timer.running

(* C24: timer reset, whatever the timer was (running or paused, any        *)
(* elapsed time, either mode), leaves elapsed_ms = 0, running = false and   *)
(* no accumulation origin, and does not touch mode or target_ms.           *)
C24_TimerReset ==
    [][last'.op = "timer_reset" =>
          /\ gs'.timer.elapsed_ms = 0
          /\ ~gs'.timer.running
          /\ gs'.timer.last_start_ms = None
          /\ gs'.timer.mode = gs.timer.mode
          /\ gs'.timer.target_ms = gs.timer.target_ms
    ]_vars

(* a countdown after its reset *)
C24_Witness ==
    /\ last.op = "timer_reset"
    /\ gs.timer.mode = COUNTDOWN
    /\ gs.timer.target_ms = Some(ClockStep)
    /\ gs.timer.elapsed_ms = 0
    /\ ~gs.timer.running
    /\ gs.status_message = Some(<<"Timer reset">>)

(* C25: in every reachable state of the timer, one installed by loading a  *)
(* document included, target_ms is None whenever mode is Stopwatch.        *)
C25_StopwatchHasNoTarget ==
    gs.timer.mode = STOPWATCH => gs.timer.target_ms = None

(* C26: set_countdown(target) with target < 0 raises ValueError and leaves  *)
(* the timer as it was: mode, target_ms, elapsed_ms and running. With      *)
(* target >= 0 it makes the timer a Countdown with that target, elapsed_ms *)
(* = 0 and running = false.                                                *)
C26_SetCountdown ==
    [][last'.op = "set_countdown" =>
          IF int_of(last'.doc) < 0
          THEN /\ last'.ret = "ValueError"
               /\ gs'.timer = gs.timer
          ELSE /\ last'.ret = "none"
               /\ gs'.timer.mode = COUNTDOWN
               /\ gs'.timer.target_ms = Some(int_of(last'.doc))
               /\ gs'.timer.elapsed_ms = 0
               /\ ~gs'.timer.running
    ]_vars

(* a negative target refused on a running countdown *)
C26_Witness ==
    /\ last = Call("set_countdown", None, JInt(-ClockStep), "ValueError")
    /\ gs.timer.mode = COUNTDOWN
    /\ gs.timer.target_ms = Some(ClockStep)
    /\ gs.timer.running
    /\ gs.timer.elapsed_ms > 0

(* C27: mark_awarded(id) returns True exactly when id was not in the       *)
(* guard, and the guard afterwards is the old one with id in it, so that   *)
(* a second mark_awarded(id) returns False until id is taken out again;    *)
(* is_awarded changes nothing and answers membership; reset(id) takes out  *)
(* id alone. As no other call puts id in or takes it out, mark_awarded(id) *)
(* returns True once between two resets of id.                             *)
C27_MarkAwardedOnce ==
    [][/\ last'.op = "mark_awarded" =>
              /\ last'.ret = Bool(int_of(last'.doc) \notin awarded)
              /\ awarded' = awarded \cup {int_of(last'.doc)}
              /\ ~mark_awarded_returns(awarded', int_of(last'.doc))
       /\ last'.op = "is_awarded" =>
              /\ awarded' = awarded
              /\ last'.ret = Bool(int_of(last'.doc) \in awarded)
       /\ last'.op = "scoring.reset" =>
              \A id \in GuardIds :
                  id \in awarded' <=> (id \in awarded /\ id # int_of(last'.doc))
       /\ last'.op \notin {"mark_awarded", "scoring.reset", "scoring.clear_all"} =>
              awarded' = awarded
    ]_vars

(* a repeated mark_awarded of an id, refused while another id is marked too *)
C27_Witness ==
    /\ last = Call("mark_awarded", None, JInt(1), "false")
    /\ awarded = {0, 1}

(* C29: toggle(id) flips whether id is revealed and nothing else, and      *)
(* returns the new flag (True when id became revealed); a second toggle of *)
(* the same id gives back the state before the first; toggle and reset of  *)
(* one id never change whether another id is revealed.                     *)
C29_ToggleFlipsOneId ==
    [][/\ last'.op = "toggle" =>
              /\ \A id \in GuardIds :
                     id \in revealed' <=>
                         IF id = int_of(last'.doc) THEN id \notin revealed
                         ELSE id \in revealed
              /\ last'.ret = Bool(int_of(last'.doc) \in revealed')
              /\ toggle(revealed', int_of(last'.doc)) = revealed
       /\ last'.op = "reveal.reset" =>
              /\ int_of(last'.doc) \notin revealed'
              /\ \A id \in GuardIds \ {int_of(last'.doc)} :
                     id \in revealed' <=> id \in revealed
    ]_vars

(* an id hidden again by its second toggle while another id stays revealed *)
C29_Witness ==
    /\ last = Call("toggle", None, JInt(1), "false")
    /\ revealed = {0}

(* C31: the state holds one status message at most, with its expiry: the  *)
(* text and the expiry are there together or not at all. A call that sets  *)
(* a status at time t leaves its own text expiring at t + 2000, whatever   *)
(* was there. A tick at a time before the expiry keeps text and expiry as  *)
(* they are; a tick at the expiry or after it clears both.                 *)
C31_StatusExpiry ==
    /\ [](IsSome(gs.status_message) <=> IsSome(gs.status_until_ms))
    /\ [][/\ last'.op = "tick" =>
                IF IsSome(gs.status_until_ms)
                       /\ int_of(last'.doc) >= Val(gs.status_until_ms)
                THEN gs'.status_message = None /\ gs'.status_until_ms = None
                ELSE /\ gs'.status_message = gs.status_message
                     /\ gs'.status_until_ms = gs.status_until_ms
          /\ last'.op \in {"timer_toggle", "timer_reset"} =>
                /\ gs'.status_message \in
                       {Some(<<"Timer started">>), Some(<<"Timer paused">>),
                        Some(<<"Timer reset">>)}
                /\ gs'.status_until_ms = Some(int_of(last'.doc) + StatusDurationMs)
       ]_vars

(* the status of a toggle at 0 is still shown after the tick at ClockStep *)
C31_Witness ==
    /\ last = Call("tick", None, JInt(ClockStep), "none")
    /\ gs.status_message = Some(<<"Timer started">>)
    /\ gs.status_until_ms = Some(StatusDurationMs)
    /\ ClockStep < StatusDurationMs

(* C32: reset_scores sets every score to 0, the buzzer to Closed with no   *)
(* locked and no blocked team, and the timer to elapsed 0 and paused. The  *)
(* teams stay as many, in their order, under their names; the timer keeps  *)
(* its mode and its target; the awarded and the revealed task ids are not  *)
(* touched.                                                                *)
C32_ResetScores ==
    [][last'.op = "reset_scores" =>
          /\ NumTeams(gs') = NumTeams(gs)
          /\ \A i \in 0..(NumTeams(gs) - 1) :
                 TeamAt(gs', i) = Team(TeamAt(gs, i).name, 0)
          /\ gs'.buzz_state = CLOSED
          /\ gs'.buzz_locked_team = None
          /\ gs'.buzz_blocked_teams = {}
          /\ gs'.timer.elapsed_ms = 0
          /\ ~gs'.timer.running
          /\ gs'.timer.mode = gs.timer.mode
          /\ gs'.timer.target_ms = gs.timer.target_ms
          /\ awarded' = awarded
          /\ revealed' = revealed
    ]_vars

(* two teams and a countdown after reset_scores *)
C32_Witness ==
    /\ last.op = "reset_scores"
    /\ gs.status_message = Some(<<"Scores reset">>)
    /\ gs.teams = <<Team(NameA, 0), Team(NameB, 0)>>
    /\ gs.timer.mode = COUNTDOWN
    /\ gs.timer.target_ms = Some(ClockStep)
    /\ gs.buzz_state = CLOSED

(* C33: fail_and_reopen takes effect from Locked only. Called while the    *)
(* buzzer is Closed or Open with no locked team it leaves the buzz state   *)
(* and the blocked teams as they were: a buzzer that was never opened is   *)
(* not opened by it.                                                       *)
C33_FailOnlyFromLocked ==
    [][(/\ last'.op = "fail_and_reopen"
        /\ gs.buzz_state \in {CLOSED, OPEN}
        /\ gs.buzz_locked_team = None) =>
          /\ gs'.buzz_state = gs.buzz_state
          /\ gs'.buzz_blocked_teams = gs.buzz_blocked_teams
    ]_vars

(* C38: under start, pause and tick with any timestamps, ones that go back *)
(* included, elapsed_ms is never negative and never decreases. Only reset, *)
(* set_countdown and set_stopwatch lower it, and they lower it to 0.       *)
C38_ElapsedMonotone ==
    /\ [](gs.timer.elapsed_ms >= 0)
    /\ [][/\ last'.op \in {"start", "pause", "timer.tick"} =>
                gs'.timer.elapsed_ms >= gs.timer.elapsed_ms
          /\ gs'.timer.elapsed_ms < gs.timer.elapsed_ms =>
                /\ last'.op \in {"timer_reset", "set_countdown", "set_stopwatch"}
                /\ gs'.timer.elapsed_ms = 0
       ]_vars

(* a pause at time 0 of a timer that had run up to a later time *)
C38_Witness ==
    /\ last = Call("pause", Some(0), JNull, "none")
    /\ ~gs.timer.running
    /\ gs.timer.elapsed_ms = ClockStep

(* C10: from_dict of a document whose buzz.locked_team is an integer       *)
(* outside [0, number of teams) succeeds with locked_team = None; a        *)
(* persisted state Locked becomes Closed, Open and Closed are kept.        *)
C10_OutOfRangeLockCleared ==
    (/\ last.op = "from_dict"
     /\ is_dict(last.doc)
     /\ "teams" \in DOMAIN last.doc.v
     /\ last.doc.v.teams \in {JList(OneTeam), JList(TwoTeams)}
     /\ "buzz" \in DOMAIN last.doc.v
     /\ is_dict(last.doc.v.buzz)
     /\ DOMAIN last.doc.v.buzz.v = {"state", "locked_team"}
     /\ last.doc.v.buzz.v.locked_team.t = "int"
     /\ LET i == last.doc.v.buzz.v.locked_team.v
        IN i < 0 \/ i >= Len(last.doc.v.teams.v)) =>
        /\ last.ret = "none"
        /\ gs.buzz_locked_team = None
        /\ LET state == last.doc.v.buzz.v.state.v
           IN gs.buzz_state = IF state = LOCKED THEN CLOSED ELSE state

(* the document of the unit test was read: one team, Locked, locked_team 9 *)
C10_Witness ==
    /\ last.op = "from_dict"
    /\ last.doc = Doc(1, OneTeam, BuzzDoc(LOCKED, JInt(9)), PausedTimerDoc)
    /\ gs.buzz_state = CLOSED

(* C9: after every successful from_dict the timer is paused, whatever      *)
(* running value the document holds, and elapsed_ms is the document's      *)
(* elapsed_ms (a non-negative integer, as to_dict writes it). A paused     *)
(* timer starts running only in timer_start_pause_toggle, and starts from  *)
(* the elapsed_ms it had: a timer saved while running resumes only after   *)
(* an explicit toggle, from the preserved elapsed time.                    *)
C9_RestoredTimerPaused ==
    [][/\ (last'.op \in {"from_dict", "round_trip"} /\ last'.ret = "none") =>
              LET timer_doc == get(last'.doc, "timer", EmptyDict)
                  elapsed_ms == get(timer_doc, "elapsed_ms", JInt(0))
              IN /\ ~gs'.timer.running
                 /\ gs'.timer.last_start_ms = None
                 /\ (is_int(elapsed_ms) /\ int_of(elapsed_ms) >= 0) =>
                        gs'.timer.elapsed_ms = int_of(elapsed_ms)
       /\ (~gs.timer.running /\ gs'.timer.running) =>
              /\ last'.op = "timer_toggle"
              /\ gs'.timer.elapsed_ms = gs.timer.elapsed_ms
    ]_vars

(* a timer saved while running, with time on it, came back paused *)
C9_Witness ==
    /\ last.op = "round_trip"
    /\ last.doc.v.timer.v.running = JBool(TRUE)
    /\ last.doc.v.timer.v.elapsed_ms.v > 0
    /\ ~gs.timer.running
    /\ gs.timer.elapsed_ms = last.doc.v.timer.v.elapsed_ms.v

-----------------------------------------------------------------------------
(* Properties of the application, checked under AppSpec *)

(* the command _apply_command is about to run *)
Applies(type) ==
    phase = "apply" /\ commands # <<>> /\ Head(commands).type = type

(* C1: each task id gets at most one Award credit. No command takes a task *)
(* id out of the awarded set, not Next or Prev around the deck nor Save or *)
(* Load; an Award changes a score only while the current task's id is not  *)
(* in the set, and puts it in; an Award on a task whose id is in the set   *)
(* leaves every score unchanged and sets the status "Already awarded".     *)
C1_OneAwardPerTask ==
    [][/\ awarded \subseteq awarded'
       /\ Applies("AWARD") =>
              IF task_id(current_index) \in awarded
              THEN /\ Scores(gs') = Scores(gs)
                   /\ gs'.status_message = Some(<<"Already awarded">>)
              ELSE Scores(gs') # Scores(gs) => task_id(current_index) \in awarded'
    ]_vars

(* the first task was awarded, the moderator went to the second task and  *)
(* around the deck back to the first, and Award was refused there          *)
C1_Witness ==
    /\ applied = Some(Command("AWARD", None))
    /\ gs.status_message = Some(<<"Already awarded">>)
    /\ awarded = {task_id(0)}
    /\ current_index = 0
    /\ last_task_index = 1

(* C2: an Award that is not refused goes to the locked team when the       *)
(* arbiter is Locked and to the selected team otherwise: with the arbiter  *)
(* Locked on L and another team S selected, L gains the task's difficulty  *)
(* and S keeps its score; when the arbiter is not Locked, the selected     *)
(* team S, if it is not blocked, gains the difficulty and no other score   *)
(* changes.                                                                *)
C2_AwardTarget ==
    [][(Applies("AWARD") /\ task_id(current_index) \notin awarded
           /\ IsSome(selected_team)) =>
          LET S == Val(selected_team)
              credited(T) ==
                  \A i \in 0..(NumTeams(gs) - 1) :
                      TeamAt(gs', i).score =
                          TeamAt(gs, i).score +
                              (IF i = T THEN difficulty(current_index) ELSE 0)
          IN /\ (gs.buzz_state = LOCKED /\ IsSome(gs.buzz_locked_team)) =>
                    credited(Val(gs.buzz_locked_team))
             /\ (gs.buzz_state # LOCKED /\ S \notin gs.buzz_blocked_teams) =>
                    credited(S)
    ]_vars

(* C11: a Load that fails installs nothing: teams and scores, arbiter,     *)
(* timer and selected team stay as they were, only the status changes (to  *)
(* the load error), and the loop goes on to the next command. A Save,      *)
(* failed or not, leaves the same in-memory state untouched, a failed one  *)
(* with the save error as status.                                          *)
C11_FailedLoadInstallsNothing ==
    [][/\ (Applies("LOAD") /\ load_state_raises(file)) =>
              /\ Game(gs') = Game(gs)
              /\ selected_team' = selected_team
              /\ gs'.status_message = Some(<<"Failed to load game state: ">>)
              /\ phase' = "apply"
              /\ commands' = Tail(commands)
              /\ UNCHANGED <<awarded, revealed, current_index, file>>
       /\ Applies("SAVE") =>
              /\ Game(gs') = Game(gs)
              /\ selected_team' = selected_team
              /\ gs'.status_message \in {Some(<<"Saved">>),
                                         Some(<<"Failed to save game state: ">>)}
              /\ gs'.status_message = Some(<<"Saved">>) => file' = to_dict(gs)
              /\ phase' = "apply"
              /\ commands' = Tail(commands)
              /\ UNCHANGED <<awarded, revealed, current_index>>
    ]_vars

(* a document that is a JSON object but no GameState was refused while     *)
(* team 1 was selected and a score stood on the ledger                     *)
C11_Witness ==
    /\ applied = Some(Command("LOAD", None))
    /\ gs.status_message = Some(<<"Failed to load game state: ">>)
    /\ is_dict(file)
    /\ selected_team = Some(1)
    /\ TeamAt(gs, 1).score # 0

(* the session's index after the NEXT and PREV commands of cmds, taken in  *)
(* arrival order                                                           *)
RECURSIVE index_after(_, _)
index_after(index, cmds) ==
    IF cmds = <<>> THEN index
    ELSE index_after(
             CASE Head(cmds).type = "NEXT" -> next_task(index)
               [] Head(cmds).type = "PREV" -> prev_task(index)
               [] OTHER -> index,
             Tail(cmds))

(* C13: commands take effect in arrival order within a batch. When         *)
(* poll_commands hands over a batch, every Award, Penalty and ToggleReveal *)
(* in it will be applied (the apply steps never move the session) to the   *)
(* task that was current when it was issued: the task reached by the       *)
(* navigation commands before it in the batch, not by the ones after it.   *)
C13_BatchArrivalOrder ==
    [][(phase = "poll" /\ phase' = "apply") =>
          \A k \in 1..Len(commands') :
              commands'[k].type \in {"AWARD", "PENALTY", "TOGGLE_REVEAL"} =>
                  current_index' =
                      index_after(current_index, SubSeq(commands', 1, k - 1))
    ]_vars

(* C14: once the session has moved to another task than the one last     *)
(* rendered, no Buzz, Award or Penalty is applied while a team is still    *)
(* blocked: the blocks of the previous task are gone before the first such *)
(* command acts on the new task, also when it arrives right behind the     *)
(* navigation command in the same batch.                                   *)
C14_BlocksClearedOnTaskChange ==
    (/\ phase = "apply"
     /\ commands # <<>>
     /\ Head(commands).type \in {"BUZZ", "AWARD", "PENALTY"}
     /\ applied \in {Some(Command("NEXT", None)), Some(Command("PREV", None))}
     /\ current_index # last_task_index) =>
        gs.buzz_blocked_teams = {}

(* C16: an Award on a task not yet awarded whose target team is blocked   *)
(* does not consume the task's award: no score changes, the task id stays  *)
(* out of the awarded set, the arbiter state, the locked team and the      *)
(* blocked teams stay as they were, and the status is "BLOCKED: {name}".   *)
(* While teams are blocked, an Award on that task whose target is a valid  *)
(* team that is not blocked still succeeds: the team gains the difficulty  *)
(* and the task id enters the awarded set.                                 *)
C16_BlockedAwardNotConsumed ==
    [][(Applies("AWARD") /\ task_id(current_index) \notin awarded
           /\ IsSome(target_team(gs, selected_team))) =>
          LET T == Val(target_team(gs, selected_team)) IN
          /\ T \in gs.buzz_blocked_teams =>
                /\ Scores(gs') = Scores(gs)
                /\ awarded' = awarded
                /\ Arbiter(gs') = Arbiter(gs)
                /\ gs'.status_message = Some(<<"BLOCKED: ">> \o TeamAt(gs, T).name)
          /\ (gs.buzz_blocked_teams # {} /\ T \notin gs.buzz_blocked_teams
                 /\ ValidIndex(gs, T)) =>
                /\ TeamAt(gs', T).score =
                       TeamAt(gs, T).score + difficulty(current_index)
                /\ task_id(current_index) \in awarded'
    ]_vars

(* the Award of a task went to a team that failed on it and was refused,   *)
(* the task still open to be awarded                                       *)
C16_Witness ==
    /\ applied = Some(Command("AWARD", None))
    /\ IsSome(selected_team)
    /\ Val(selected_team) \in gs.buzz_blocked_teams
    /\ gs.status_message =
           Some(<<"BLOCKED: ">> \o TeamAt(gs, Val(selected_team)).name)
    /\ gs.buzz_state = OPEN
    /\ task_id(current_index) \notin awarded

(* C17: every Award either succeeds whole or does nothing to the game.    *)
(* When it succeeds, the target team (the locked team, else the selected   *)
(* one) gains exactly the current task's difficulty and no other score     *)
(* changes, the task id enters the awarded set, and the arbiter is Closed  *)
(* with no locked team. Otherwise no score changes, the awarded set and    *)
(* the arbiter stay as they were.                                          *)
C17_AwardAllOrNothing ==
    [][Applies("AWARD") =>
          \/ /\ IsSome(target_team(gs, selected_team))
             /\ ValidIndex(gs, Val(target_team(gs, selected_team)))
             /\ \A i \in 0..(NumTeams(gs) - 1) :
                    TeamAt(gs', i).score =
                        TeamAt(gs, i).score +
                            (IF i = Val(target_team(gs, selected_team))
                             THEN difficulty(current_index) ELSE 0)
             /\ task_id(current_index) \notin awarded
             /\ awarded' = awarded \cup {task_id(current_index)}
             /\ gs'.buzz_state = CLOSED
             /\ gs'.buzz_locked_team = None
          \/ /\ gs'.teams = gs.teams
             /\ awarded' = awarded
             /\ Arbiter(gs') = Arbiter(gs)
    ]_vars

(* team B buzzed on the first task and was awarded its difficulty *)
C17_Witness ==
    /\ applied = Some(Command("AWARD", None))
    /\ gs.status_message = Some(<<"BUZZ RESET">>)
    /\ awarded = {task_id(0)}
    /\ current_index = 0
    /\ selected_team = Some(1)
    /\ TeamAt(gs, 1).score = difficulty(0)
    /\ TeamAt(gs, 0).score = 0
    /\ gs.buzz_state = CLOSED
    /\ gs.buzz_locked_team = None


(* C19: Penalty is not gated by the awarded set. Every Penalty, on an       *)
(* awarded task and on a repetition as well, takes the current task's      *)
(* difficulty from the resolved team (the locked team, else the selected   *)
(* one) and from no other team, unless that team is blocked, and then no   *)
(* score changes. No floor stops the score. The buzz state, the locked     *)
(* team, the blocked teams and the awarded set stay as they were.          *)
C19_PenaltyUngated ==
    [][(Applies("PENALTY") /\ IsSome(target_team(gs, selected_team))
           /\ ValidIndex(gs, Val(target_team(gs, selected_team)))) =>
          LET T == Val(target_team(gs, selected_team)) IN
          /\ Arbiter(gs') = Arbiter(gs)
          /\ awarded' = awarded
          /\ IF T \in gs.buzz_blocked_teams THEN gs'.teams = gs.teams
             ELSE \A i \in 0..(NumTeams(gs) - 1) :
                     TeamAt(gs', i).score =
                         TeamAt(gs, i).score -
                             (IF i = T THEN difficulty(current_index) ELSE 0)
    ]_vars

(* the first task was awarded to team A and then penalised twice *)
C19_Witness ==
    /\ applied = Some(Command("PENALTY", None))
    /\ awarded = {task_id(0)}
    /\ current_index = 0
    /\ selected_team = Some(0)
    /\ TeamAt(gs, 0).score = -difficulty(0)


(* C20: while the buzz state is Locked every SelectTeam command is         *)
(* rejected: the selected team and the whole game state, arbiter and       *)
(* status message included, stay as they were. In Closed or Open a         *)
(* SelectTeam with a valid index makes that index the selected team.       *)
C20_SelectRejectedWhileLocked ==
    [][Applies("SELECT_TEAM") =>
          IF gs.buzz_state = LOCKED
          THEN /\ selected_team' = selected_team
               /\ Arbiter(gs') = Arbiter(gs)
               /\ Status(gs') = Status(gs)
          ELSE ValidIndex(gs, Val(Head(commands).team_index)) =>
                  selected_team' = Head(commands).team_index
    ]_vars

(* team B holds the lock and the key of team A was pressed *)
C20_Witness ==
    /\ applied = Some(Command("SELECT_TEAM", Some(0)))
    /\ gs.buzz_state = LOCKED
    /\ gs.buzz_locked_team = Some(1)
    /\ selected_team = Some(1)
    /\ gs.status_message # Some(<<"Selected: ">> \o TeamAt(gs, 0).name)


(* C28: the set of awarded task ids never shrinks, whatever the            *)
(* application does: not on navigation (around the deck to an awarded task *)
(* too), BuzzReset, BuzzFail, Penalty, ToggleReveal, Save or Load, nor in  *)
(* the frame drawn after a task change. It grows only in an Award that     *)
(* succeeds: the id added is the current task's and the target team gains  *)
(* the task's difficulty in the same step.                                 *)
C28_AwardedNeverShrinks ==
    [][/\ awarded \subseteq awarded'
       /\ awarded' # awarded =>
              /\ Applies("AWARD")
              /\ awarded' = awarded \cup {task_id(current_index)}
              /\ IsSome(target_team(gs, selected_team))
              /\ TeamAt(gs', Val(target_team(gs, selected_team))).score =
                     TeamAt(gs, Val(target_team(gs, selected_team))).score
                         + difficulty(current_index)
    ]_vars

(* a Load after an Award: the file's scores are in, the award is still known *)
C28_Witness ==
    /\ applied = Some(Command("LOAD", None))
    /\ gs.status_message = Some(<<"Loaded">>)
    /\ awarded = {task_id(0)}
    /\ \A i \in 0..(NumTeams(gs) - 1) : TeamAt(gs, i).score # difficulty(0)


(* C30: the session's current index is always within 0..NumTasks-1, and it *)
(* moves only by next_task and prev_task. From every index the session     *)
(* reaches: next from the last task gives the first, prev from the first   *)
(* gives the last, next then prev and prev then next give the same task    *)
(* back, and NumTasks nexts in a row come back to the task they started at. *)
C30_SessionWrapsAround ==
    /\ [](/\ current_index \in 0..(NumTasks - 1)
          /\ current_index = NumTasks - 1 => next_task(current_index) = 0
          /\ current_index = 0 => prev_task(current_index) = NumTasks - 1
          /\ next_task(current_index) \in 0..(NumTasks - 1)
          /\ prev_task(current_index) \in 0..(NumTasks - 1)
          /\ prev_task(next_task(current_index)) = current_index
          /\ next_task(prev_task(current_index)) = current_index
          /\ index_after(current_index,
                         [k \in 1..NumTasks |-> Command("NEXT", None)]) = current_index)
    /\ [][IF phase = "poll" THEN current_index' = index_after(current_index, commands')
          ELSE current_index' = current_index]_vars

(* Prev pressed on the first task: the session shows the last one *)
C30_Witness ==
    /\ applied = Some(Command("PREV", None))
    /\ current_index = NumTasks - 1
    /\ last_task_index = 0
    /\ keys = 1


(* C34: a task that becomes the displayed one through navigation is not    *)
(* revealed when it is first rendered, whatever ToggleReveal commands were *)
(* applied before, one in the batch of the navigation included; the task   *)
(* displayed before is not revealed any more either. So between frames no  *)
(* task but the displayed one is ever revealed.                            *)
C34_NewTaskStartsHidden ==
    /\ [][(phase = "apply" /\ commands = <<>> /\ current_index # last_task_index) =>
             /\ last_task_index' = current_index
             /\ task_id(current_index) \notin revealed'
             /\ task_id(last_task_index) \notin revealed'
       ]_vars
    /\ [](phase = "poll" =>
             /\ last_task_index = current_index
             /\ revealed \subseteq {task_id(current_index)})

(* Next and ToggleReveal arrived together: the toggle revealed the new     *)
(* task, and the frame that shows it first hides it again                  *)
C34_Witness ==
    /\ phase = "poll"
    /\ keys = 2
    /\ applied = Some(Command("TOGGLE_REVEAL", None))
    /\ gs.status_message = Some(<<"Revealed">>)
    /\ current_index = 1
    /\ last_task_index = 1
    /\ revealed = {}


(* C35: the controller's buzz-open mode agrees with the arbiter. A team    *)
(* key pressed while the buzzer is Open is delivered as Buzz(team), one    *)
(* pressed while it is Closed as SelectTeam(team): after BuzzFail reopened *)
(* the buzzer the next team key buzzes, and after an Award the next team   *)
(* key selects. The key looked at is the first of its batch, so that the   *)
(* buzzer is in the state the key was pressed in.                          *)
C35_TeamKeyFollowsArbiter ==
    [][(/\ phase = "poll" /\ phase' = "apply"
        /\ commands' # <<>>
        /\ Head(commands').type \in {"BUZZ", "SELECT_TEAM"}) =>
          /\ gs.buzz_state = OPEN => Head(commands').type = "BUZZ"
          /\ gs.buzz_state = CLOSED => Head(commands').type = "SELECT_TEAM"
    ]_vars


(* C36: in the application the selected team is always a valid index into  *)
(* the teams of the current game state, after SelectTeam and Buzz with any *)
(* index and after the Load of a document with fewer teams, so that Award  *)
(* and Penalty never act on a team that does not exist.                    *)
C36_SelectedTeamValid ==
    /\ IsSome(selected_team)
    /\ ValidIndex(gs, Val(selected_team))
    /\ IsSome(target_team(gs, selected_team))
    /\ ValidIndex(gs, Val(target_team(gs, selected_team)))

(* team B was selected, then a document with one team was loaded *)
C36_Witness ==
    /\ applied = Some(Command("LOAD", None))
    /\ gs.status_message = Some(<<"Loaded">>)
    /\ NumTeams(gs) = 1
    /\ selected_team = Some(0)
    /\ keys >= 2

(* C37: in every reachable state of the application, one installed by Load *)
(* included, the selected team is the locked team whenever the buzzer is   *)
(* Locked: the team shown as selected is the one Award and Penalty act on. *)
C37_SelectedIsLockedTeam ==
    gs.buzz_state = LOCKED => selected_team = gs.buzz_locked_team


(* C39 as stated: every applied command, Load included, changes the score  *)
(* of at most one team.                                                    *)
C39_AtMostOneScorePerCommand ==
    [][(phase = "apply" /\ commands # <<>>) =>
          Cardinality({i \in 1..Min(Len(gs.teams), Len(gs'.teams)) :
                          gs'.teams[i].score # gs.teams[i].score}) <= 1
    ]_vars

(* C39: every applied command but a successful Load changes the score of   *)
(* at most one team; a successful Load installs the ledger of the file.    *)
(* Only Award, Penalty and a successful Load change any score: Award adds  *)
(* the difficulty of the current task to the target or changes nothing,    *)
(* Penalty takes it from the target unless the target is blocked, and      *)
(* navigation, selection, buzz, timer, reveal, roster, help and Save leave *)
(* the whole ledger as it was.                                             *)
C39_ScoreFrame ==
    [][(phase = "apply" /\ commands # <<>>) =>
          LET type == Head(commands).type
              T == target_team(gs, selected_team)
              credited(points) ==
                  /\ IsSome(T) /\ ValidIndex(gs, Val(T))
                  /\ Len(gs'.teams) = Len(gs.teams)
                  /\ \A i \in 0..(NumTeams(gs) - 1) :
                        /\ TeamAt(gs', i).name = TeamAt(gs, i).name
                        /\ TeamAt(gs', i).score =
                              TeamAt(gs, i).score + (IF i = Val(T) THEN points ELSE 0)
          IN
          /\ type = "AWARD" =>
                \/ gs'.teams = gs.teams
                \/ credited(difficulty(current_index))
          /\ type = "PENALTY" =>
                IF IsSome(T) /\ Val(T) \in gs.buzz_blocked_teams
                THEN gs'.teams = gs.teams
                ELSE credited(-difficulty(current_index))
          /\ type = "LOAD" =>
                gs'.teams = IF load_state_raises(file) THEN gs.teams
                            ELSE from_dict(file).teams
          /\ type \notin {"AWARD", "PENALTY", "LOAD"} => gs'.teams = gs.teams
    ]_vars

(* a Penalty on the first task after the Load of the two-team document:    *)
(* one score of the loaded ledger moved, the other stayed                  *)
C39_Witness ==
    /\ applied = Some(Command("PENALTY", None))
    /\ current_index = 0
    /\ NumTeams(gs) = 2
    /\ \/ Scores(gs) = <<1 - difficulty(0), -1>>
       \/ Scores(gs) = <<1, -1 - difficulty(0)>>

====
